---- MODULE Spec2Model ----
(***************************************************************************)
(* PicoWiFiManager: the persistent configuration store (StorageManager)    *)
(* at the level of the bytes of StorageData, and the connection            *)
(* orchestrator (PicoWiFiManager) with its setup portal (ConfigPortal).    *)
(***************************************************************************)
EXTENDS Integers, Sequences, FiniteSets, TLC

VARIABLES
    \* ---- StorageManager and the EEPROM emulation it writes to
    _initialized,   \* StorageManager::_initialized
    _data,          \* StorageManager::_data, as the bytes of the object
    eeprom,         \* the flash-backed bytes at EEPROM_START_ADDRESS
    eepromBegun,    \* EEPROM.begin() has run since the last restart
    \* ---- PicoWiFiManager and its ConfigPortal
    _config,            \* PicoWiFiManager::_config, the fields the code reads
    _isInitialized,     \* PicoWiFiManager::_isInitialized
    _status,            \* PicoWiFiManager::_status
    _configMode,        \* PicoWiFiManager::_configMode
    _reconnectAttempts, \* PicoWiFiManager::_reconnectAttempts
    reconnectAge,       \* millis() - _lastReconnectAttempt, up to 10000
    _active,            \* ConfigPortal::_active
    portalAge,          \* millis() - ConfigPortal::_startTime while _active
    pressed,            \* checkResetButton's static `pressed`
    pressAge,           \* millis() - pressStart while `pressed`
    \* ---- the hardware around them
    pinLow,         \* digitalRead(_config.resetPin) == LOW
    linkUp,         \* WiFi.status() == WL_CONNECTED
    apUp,           \* the soft access point is running
    pinHeld,        \* for how long the pin has been low without interruption,
                    \* or was in the hold whose end checkResetButton has yet
                    \* to see; -1 where nobody times the pin
    radioFault,     \* the radio has failed hard: WiFi.status() reports a
                    \* failure other than a timeout, and never WL_CONNECTED
    joinArgs,       \* the arguments of the last WiFi.begin since the restart
    garbage,        \* what the indeterminate bytes of the manager's objects
                    \* hold since the restart
    \* ---- the last call, as its caller sees it
    op,             \* the name of the last call
    ret,            \* what it returned (TRUE for a void call)
    args,           \* its arguments
    credentials,    \* the out-parameter of the last loadWiFiCredentials
    log,            \* what the last call did, in order: the status of every
                    \* _onStatusChange, and "onConfigStart", "onConfigEnd",
                    \* "onConnect", "WiFi.begin", "WiFi.softAP",
                    \* "saveWiFiCredentials", "clearAll", "restart"
    \* ---- what has happened so far
    nops,           \* what is bounded, so far: the calls of a sketch that uses
                    \* the store alone, the presses of the button
    saved,          \* the arguments of the last saveWiFiCredentials that returned true
    sinceSave,      \* what followed it: "saved", "restarted", "reopened"; else "none"
    sinceClear,     \* "cleared" after a clear of the credentials, "savedAll" after a
                    \* saveAll that followed it, "none" after a saveWiFiCredentials
    corrupted,      \* "corrupted" after a byte of the flash changed, "recovered" after
                    \* the next begin(), else "no"
    tickJoins,      \* the joins loop() has started by itself since the last
                    \* join that succeeded, or since the restart
    joinedBy,       \* what started the last join that succeeded since the
                    \* restart: "autoConnect", "autoConnectWith", "tick",
                    \* "portal"; "none" before the first
    lastHold,       \* the hold checkResetButton measured at the last release
                    \* it saw, in ms up to 3001; -1 before the first
    notified        \* the status of the last _onStatusChange since the restart,
                    \* "none" before the first

storeVars == <<_initialized, _data, eeprom, eepromBegun>>
managerVars ==
    <<_config, _isInitialized, _status, _configMode, _reconnectAttempts,
      reconnectAge, _active, portalAge, pressed, pressAge>>
hardwareVars ==
    <<pinLow, pinHeld, linkUp, apUp, radioFault, joinArgs, garbage>>
callVars  == <<op, ret, args, credentials, log>>
storyVars == <<nops, saved, sinceSave, sinceClear, corrupted>>
observerVars == <<tickJoins, joinedBy, lastHold, notified>>
vars ==
    <<storeVars, managerVars, hardwareVars, callVars, storyVars, observerVars>>

(***************************************************************************)
(* Bounds of the model.                                                    *)
(***************************************************************************)
MaxOps == 3
MaxCorruptOps == 4
\* the button is pressed at most MaxPresses times
MaxPresses == 1

\* Values an indeterminate padding byte is drawn from: zeroed memory or the
\* erased-flash pattern.  One struct copy writes the same value to all the
\* padding bytes it covers.
PadBytes == {0, 255}

(***************************************************************************)
(* Bytes.                                                                  *)
(***************************************************************************)
Byte == 0..255

\* bitwise exclusive or of two bytes
RECURSIVE BitXorRec(_, _)
BitXorRec(a, b) ==
    IF a = 0 THEN b
    ELSE IF b = 0 THEN a
    ELSE (((a % 2) + (b % 2)) % 2) + 2 * BitXorRec(a \div 2, b \div 2)

XorTable == [a \in Byte |-> [b \in Byte |-> BitXorRec(a, b)]]
BitXor(a, b) == XorTable[a][b]

(***************************************************************************)
(* The layout of StorageData (32-bit ARM, natural alignment).              *)
(***************************************************************************)
MAX_SSID_LENGTH == 32
MAX_PASSWORD_LENGTH == 64
MAX_HOSTNAME_LENGTH == 32
RESERVED_LENGTH == 64
STORAGE_VERSION == 1
\* STORAGE_MAGIC 0x50494345 as stored, least significant byte first
STORAGE_MAGIC == <<69, 67, 73, 80>>

OFF_MAGIC == 0
OFF_VERSION == 4
OFF_CHECKSUM == 8
SIZEOF_CHECKSUM == 4
OFF_WIFI == 12
OFF_SSID == 12
OFF_PASSWORD == 44
OFF_VALID == 108
SIZEOF_WIFI == 97
OFF_NETWORK == 112
SIZEOF_NETWORK == 24
OFF_DEVICE == 136
OFF_HOSTNAME == 136
SIZEOF_DEVICE == 36
OFF_RESERVED == 172
SIZEOF_STORAGEDATA == 236

Offsets == 0..(SIZEOF_STORAGEDATA - 1)

\* the padding the compiler inserts: after version, after wifi, and after
\* NetworkConfig::useStaticIP
PadAfterVersion == 5..7
PadAfterWifi == 109..111
PadInNetwork == 113..115

WifiRange == OFF_WIFI..(OFF_WIFI + SIZEOF_WIFI - 1)
NetworkRange == OFF_NETWORK..(OFF_NETWORK + SIZEOF_NETWORK - 1)
DeviceRange == OFF_DEVICE..(OFF_DEVICE + SIZEOF_DEVICE - 1)
ChecksumRange == OFF_CHECKSUM..(OFF_CHECKSUM + SIZEOF_CHECKSUM - 1)

(***************************************************************************)
(* C strings.  A string argument is a pointer: null, or a sequence of      *)
(* non-zero bytes followed by a terminator that is not part of `chars`.    *)
(***************************************************************************)
NULLPTR == [isNull |-> TRUE, chars |-> <<>>]
Str(s) == [isNull |-> FALSE, chars |-> s]

\* strncpy(dst, src, n); dst[n] = '\0' on a buffer of n + 1 bytes: the first
\* n bytes of src, then zeros up to the end of the buffer
strncpy(chars, n) ==
    [i \in 0..n |-> IF i < n /\ i < Len(chars) THEN chars[i + 1] ELSE 0]

\* strlen of the string at `off`, reading no further than `cap` bytes: the
\* index of the first zero byte
strlenAt(d, off, cap) ==
    IF \E i \in 0..(cap - 1) : d[off + i] = 0
    THEN CHOOSE i \in 0..(cap - 1) :
            d[off + i] = 0 /\ \A j \in 0..(i - 1) : d[off + j] # 0
    ELSE cap

\* the string at `off` as the sequence of its characters
CStringAt(d, off, cap) ==
    LET n == strlenAt(d, off, cap) IN
    IF n = 0 THEN <<>> ELSE [i \in 1..n |-> d[off + i - 1]]

(***************************************************************************)
(* The substructures as bytes relative to their start, and their defaults. *)
(***************************************************************************)
\* the credentials copied with strncpy(dst, src, sizeof(dst)) and no
\* terminator stored after them
WiFiCredentialsBytesNoTerminator(ssid, password, valid) ==
    [i \in 0..(SIZEOF_WIFI - 1) |->
        IF i < MAX_SSID_LENGTH
        THEN (IF i < Len(ssid) THEN ssid[i + 1] ELSE 0)
        ELSE IF i < MAX_SSID_LENGTH + MAX_PASSWORD_LENGTH
        THEN (IF i - MAX_SSID_LENGTH < Len(password)
              THEN password[i - MAX_SSID_LENGTH + 1] ELSE 0)
        ELSE IF valid THEN 1 ELSE 0]

\* a WiFiCredentials object holding the strings ssid and password: each is
\* copied with strncpy(dst, src, sizeof(dst) - 1) and terminated
WiFiCredentialsBytes(ssid, password, valid) ==
    [i \in 0..(SIZEOF_WIFI - 1) |->
        IF i < MAX_SSID_LENGTH
        THEN strncpy(ssid, MAX_SSID_LENGTH - 1)[i]
        ELSE IF i < MAX_SSID_LENGTH + MAX_PASSWORD_LENGTH
        THEN strncpy(password, MAX_PASSWORD_LENGTH - 1)[i - MAX_SSID_LENGTH]
        ELSE IF valid THEN 1 ELSE 0]

\* WiFiCredentials(): everything zero, valid = false
WiFiCredentialsDefault == WiFiCredentialsBytes(<<>>, <<>>, FALSE)

\* a clear() that zeroes the strings and leaves the flag set
WiFiCredentialsStillValid == WiFiCredentialsBytes(<<>>, <<>>, TRUE)

\* WiFiCredentials::clear(): everything zero, valid = false
WiFiCredentialsCleared == WiFiCredentialsBytes(<<>>, <<>>, FALSE)

\* a 32-bit value as four bytes, least significant first
LE32(b0, b1, b2, b3) == <<b0, b1, b2, b3>>

\* NetworkConfig as bytes: useStaticIP, three padding bytes, five addresses
NetworkConfigBytes(cfg, pad) ==
    [i \in 0..(SIZEOF_NETWORK - 1) |->
        IF i = 0 THEN (IF cfg.useStaticIP THEN 1 ELSE 0)
        ELSE IF i < 4 THEN pad
        ELSE IF i < 8 THEN cfg.staticIP[i - 3]
        ELSE IF i < 12 THEN cfg.gateway[i - 7]
        ELSE IF i < 16 THEN cfg.subnet[i - 11]
        ELSE IF i < 20 THEN cfg.primaryDNS[i - 15]
        ELSE cfg.secondaryDNS[i - 19]]

\* NetworkConfig(): no static IP, all addresses zero
NetworkConfigDefault ==
    [useStaticIP |-> FALSE, staticIP |-> LE32(0, 0, 0, 0),
     gateway |-> LE32(0, 0, 0, 0), subnet |-> LE32(0, 0, 0, 0),
     primaryDNS |-> LE32(0, 0, 0, 0), secondaryDNS |-> LE32(0, 0, 0, 0)]

\* DeviceConfig as bytes: hostname[32], autoReconnect, maxReconnectAttempts,
\* connectTimeout (16 bits, least significant byte first)
DeviceConfigBytes(cfg) ==
    [i \in 0..(SIZEOF_DEVICE - 1) |->
        IF i < MAX_HOSTNAME_LENGTH
        THEN strncpy(cfg.hostname, MAX_HOSTNAME_LENGTH - 1)[i]
        ELSE IF i = 32 THEN (IF cfg.autoReconnect THEN 1 ELSE 0)
        ELSE IF i = 33 THEN cfg.maxReconnectAttempts
        ELSE IF i = 34 THEN cfg.connectTimeout % 256
        ELSE cfg.connectTimeout \div 256]

\* DeviceConfig(): "pico2w", autoReconnect, 3 attempts, 30 s
DeviceConfigDefault ==
    [hostname |-> <<112, 105, 99, 111, 50, 119>>, autoReconnect |-> TRUE,
     maxReconnectAttempts |-> 3, connectTimeout |-> 30]

\* StorageData(): magic, version, checksum 0, the substructures' defaults,
\* reserved zeroed; the padding holds whatever the memory held
StorageDataDefault(pad) ==
    [i \in Offsets |->
        IF i < OFF_VERSION THEN STORAGE_MAGIC[i + 1]
        ELSE IF i = OFF_VERSION THEN STORAGE_VERSION
        ELSE IF i \in PadAfterVersion THEN pad
        ELSE IF i \in ChecksumRange THEN 0
        ELSE IF i \in WifiRange THEN WiFiCredentialsDefault[i - OFF_WIFI]
        ELSE IF i \in PadAfterWifi THEN pad
        ELSE IF i \in NetworkRange
        THEN NetworkConfigBytes(NetworkConfigDefault, pad)[i - OFF_NETWORK]
        ELSE IF i \in DeviceRange
        THEN DeviceConfigBytes(DeviceConfigDefault)[i - OFF_DEVICE]
        ELSE 0]

\* d with the bytes of `sub` stored from offset `off`
WithBytes(d, off, sub, size) ==
    [i \in Offsets |-> IF i >= off /\ i < off + size THEN sub[i - off] ELSE d[i]]

(***************************************************************************)
(* StorageManager's private helpers.                                       *)
(***************************************************************************)
\* the number of leading bytes calculateChecksum reads
ChecksumSpan == SIZEOF_STORAGEDATA - SIZEOF_CHECKSUM

\* the XOR of the bytes d[lo..hi], lo <= hi (XOR is associative and
\* commutative, so the halves may be folded apart)
RECURSIVE XorBytes(_, _, _)
XorBytes(d, lo, hi) ==
    IF lo = hi THEN d[lo]
    ELSE LET mid == (lo + hi) \div 2 IN
         BitXor(XorBytes(d, lo, mid), XorBytes(d, mid + 1, hi))

\* for (i = 0; i < sizeof(StorageData) - sizeof(data.checksum); i++)
\*     checksum ^= ptr[i];
calculateChecksum(d) == XorBytes(d, 0, ChecksumSpan - 1)

\* the stored checksum field equals the 32-bit value c (c < 256 here)
ChecksumFieldIs(d, c) ==
    /\ d[OFF_CHECKSUM] = c
    /\ \A i \in ChecksumRange \ {OFF_CHECKSUM} : d[i] = 0

WifiValid(d) == d[OFF_VALID] # 0

isValidSSID(d) ==
    LET len == strlenAt(d, OFF_SSID, MAX_SSID_LENGTH) IN
    /\ ~(len = 0 \/ len > 31)
    /\ \A i \in 0..(len - 1) :
          ~(d[OFF_SSID + i] < 32 \/ d[OFF_SSID + i] > 126)

validateData(d) ==
    /\ \A i \in 0..3 : d[OFF_MAGIC + i] = STORAGE_MAGIC[i + 1]
    /\ d[OFF_VERSION] = STORAGE_VERSION
    /\ ChecksumFieldIs(d, calculateChecksum(d))
    /\ (WifiValid(d) => isValidSSID(d))

\* _data.checksum = calculateChecksum(_data)
WithChecksum(d) ==
    LET c == calculateChecksum(d) IN
    [i \in Offsets |->
        IF i = OFF_CHECKSUM THEN c
        ELSE IF i \in ChecksumRange THEN 0
        ELSE d[i]]

\* the arguments of a call that takes none
NoArgs == [none |-> TRUE]

\* the out-parameter of loadWiFiCredentials before any call
NoCredentials == [i \in 0..(SIZEOF_WIFI - 1) |-> 0]

(***************************************************************************)
(* StorageManager, as functions of the store s: the object's _initialized  *)
(* and _data, the flash-backed bytes, and whether EEPROM.begin() has run.  *)
(***************************************************************************)
Store ==
    [initialized |-> _initialized, data |-> _data,
     eeprom |-> eeprom, begun |-> eepromBegun]

\* StorageManager(): _initialized(false), and StorageData() for _data
Storage_new(s, pad) ==
    [s EXCEPT !.initialized = FALSE, !.data = StorageDataDefault(pad)]

\* the device restarts: the flash keeps its bytes, the EEPROM emulation and
\* the object are built anew
Storage_restart(s, pad) == [Storage_new(s, pad) EXCEPT !.begun = FALSE]

\* saveToEEPROM(): the checksum is set in _data, and _data is put and
\* committed.  The emulation stores nothing before EEPROM.begin() has given
\* it a size.
saveToEEPROM(s) ==
    LET w == WithChecksum(s.data) IN
    [s EXCEPT !.data = w, !.eeprom = IF s.begun THEN w ELSE @]

\* void initializeDefaults(): _data = StorageData()
initializeDefaults(s, pad) == [s EXCEPT !.data = StorageDataDefault(pad)]

\* bool begin(size_t eepromSize): EEPROM.begin, then loadFromEEPROM
\* (EEPROM.get into _data, validateData); on failure the defaults are
\* initialized and saved
Storage_begin(s, pad) ==
    LET b == [s EXCEPT !.begun = TRUE, !.initialized = TRUE] IN
    IF validateData(b.eeprom)
    THEN [b EXCEPT !.data = b.eeprom]
    ELSE saveToEEPROM(initializeDefaults(b, pad))

\* void format()
Storage_format(s, pad) == saveToEEPROM(initializeDefaults(s, pad))

\* what saveWiFiCredentials returns
Storage_saveWiFiCredentialsRet(s, ssid) == ~(~s.initialized \/ ssid.isNull)

\* bool saveWiFiCredentials(const char* ssid, const char* password)
Storage_saveWiFiCredentials(s, ssid, password) ==
    IF ~s.initialized \/ ssid.isNull
    THEN s
    ELSE saveToEEPROM([s EXCEPT !.data =
            WithBytes(@, OFF_WIFI,
                WiFiCredentialsBytes(ssid.chars,
                    IF password.isNull THEN <<>> ELSE password.chars,
                    TRUE),
                SIZEOF_WIFI)])

\* the bytes of the wifi substructure of d
WifiOf(d) == [i \in 0..(SIZEOF_WIFI - 1) |-> d[OFF_WIFI + i]]

\* what loadWiFiCredentials returns
Storage_loadFound(s) == IF ~s.initialized THEN FALSE ELSE WifiValid(s.data)

\* what loadWiFiCredentials leaves in its out-parameter, which held c
Storage_loadWiFiCredentials(s, c) == IF ~s.initialized THEN c ELSE WifiOf(s.data)

\* void clearWiFiCredentials()
Storage_clearWiFiCredentials(s) ==
    saveToEEPROM([s EXCEPT !.data =
        WithBytes(@, OFF_WIFI, WiFiCredentialsCleared, SIZEOF_WIFI)])

\* bool saveNetworkConfig(const NetworkConfig& config); the padding of the
\* caller's object is copied with it
Storage_saveNetworkConfig(s, config, pad) ==
    IF ~s.initialized
    THEN s
    ELSE saveToEEPROM([s EXCEPT !.data =
            WithBytes(@, OFF_NETWORK, NetworkConfigBytes(config, pad),
                      SIZEOF_NETWORK)])

\* clearNetworkConfig() that resets the device configuration as well
Storage_clearNetworkConfigAndDevice(s, pad) ==
    saveToEEPROM([s EXCEPT !.data =
        WithBytes(
            WithBytes(@, OFF_NETWORK,
                      NetworkConfigBytes(NetworkConfigDefault, pad),
                      SIZEOF_NETWORK),
            OFF_DEVICE, DeviceConfigBytes(DeviceConfigDefault),
            SIZEOF_DEVICE)])

\* void clearNetworkConfig()
Storage_clearNetworkConfig(s, pad) ==
    saveToEEPROM([s EXCEPT !.data =
        WithBytes(@, OFF_NETWORK, NetworkConfigBytes(NetworkConfigDefault, pad),
                  SIZEOF_NETWORK)])

\* bool saveDeviceConfig(const DeviceConfig& config)
Storage_saveDeviceConfig(s, config) ==
    IF ~s.initialized
    THEN s
    ELSE saveToEEPROM([s EXCEPT !.data =
            WithBytes(@, OFF_DEVICE, DeviceConfigBytes(config), SIZEOF_DEVICE)])

\* void clearDeviceConfig()
Storage_clearDeviceConfig(s) ==
    saveToEEPROM([s EXCEPT !.data =
        WithBytes(@, OFF_DEVICE, DeviceConfigBytes(DeviceConfigDefault),
                  SIZEOF_DEVICE)])

\* the three substructures of d replaced
WithAll(d, wifiBytes, network, pad, device) ==
    WithBytes(
        WithBytes(
            WithBytes(d, OFF_WIFI, wifiBytes, SIZEOF_WIFI),
            OFF_NETWORK, NetworkConfigBytes(network, pad), SIZEOF_NETWORK),
        OFF_DEVICE, DeviceConfigBytes(device), SIZEOF_DEVICE)

\* bool saveAll(wifi, network, device)
Storage_saveAll(s, wifi, network, pad, device) ==
    IF ~s.initialized
    THEN s
    ELSE saveToEEPROM([s EXCEPT !.data =
            WithAll(@, WiFiCredentialsBytes(wifi.ssid, wifi.password, wifi.valid),
                    network, pad, device)])

\* void clearAll()
Storage_clearAll(s, pad) ==
    saveToEEPROM([s EXCEPT !.data =
        WithAll(@, WiFiCredentialsCleared, NetworkConfigDefault, pad,
                DeviceConfigDefault)])

\* bool repairIfNeeded()
Storage_repairIfNeeded(s, pad) ==
    IF ~s.initialized THEN s
    ELSE IF ~validateData(s.data) THEN saveToEEPROM(initializeDefaults(s, pad))
    ELSE s

\* bool isValid()
isValid == _initialized /\ validateData(_data)

\* bool isCorrupted()
isCorrupted == _initialized /\ ~validateData(_data)

\* bool performIntegrityCheck()
performIntegrityCheck == IF ~_initialized THEN FALSE ELSE validateData(_data)

\* bool hasWiFiCredentials()
hasWiFiCredentials == _initialized /\ WifiValid(_data)

\* what loadWiFiCredentials would return now
loadFound == Storage_loadFound(Store)

(***************************************************************************)
(* PicoWiFiManager and ConfigPortal.                                       *)
(***************************************************************************)
\* enum class ConnectionStatus
ConnectionStatus ==
    {"DISCONNECTED", "CONNECTING", "CONNECTED", "CONFIG_MODE", "ERROR"}

\* handleReconnection: now - _lastReconnectAttempt < 10000
RECONNECT_INTERVAL == 10000
\* checkResetButton: pressDuration > 3000, pressDuration > 100
LONG_PRESS == 3000
SHORT_PRESS == 100
\* ConfigPortal(): _timeout(300000)
PORTAL_TIMEOUT == 300000
\* digitalRead is not consulted when _config.resetPin is 255
NO_PIN == 255

\* PicoWiFiConfig(): the defaults of the fields the code reads
PicoWiFiConfigDefault ==
    [configPortalTimeout |-> 300, connectTimeout |-> 30,
     maxReconnectAttempts |-> 3, autoReconnect |-> TRUE, resetPin |-> 2]

Min(a, b) == IF a < b THEN a ELSE b

\* The state of the device during a call: the store, the manager, its
\* portal and the hardware, and with them what the call has logged so far,
\* what the last inner call returned, whether the device has restarted
\* under the call, the hold the call measured at the release of the button
\* (-1 when it saw none), what the radio answers during the call to a join
\* (joinOk, never a success once the radio has failed hard) and to the
\* start of the access point (apOk), and what the
\* indeterminate bytes hold after a restart under the call (restartPad).
Machine(joinOk, apOk, restartPad) ==
    [store |-> Store, config |-> _config, isInitialized |-> _isInitialized,
     status |-> _status, configMode |-> _configMode,
     reconnectAttempts |-> _reconnectAttempts, reconnectAge |-> reconnectAge,
     active |-> _active, portalAge |-> portalAge,
     pressed |-> pressed, pressAge |-> pressAge,
     pinLow |-> pinLow, pinHeld |-> pinHeld, linkUp |-> linkUp,
     apUp |-> apUp, joinArgs |-> joinArgs,
     log |-> <<>>, ret |-> TRUE, halted |-> FALSE, hold |-> -1,
     garbage |-> garbage, radioFault |-> radioFault,
     joinOk |-> joinOk /\ ~radioFault, apOk |-> apOk,
     restartPad |-> restartPad]

\* the log of a call: whether an entry is a status, and how often an event
\* occurs in it
IsStatus(event) == event \in ConnectionStatus

CountOf(event, l) == Len(SelectSeq(l, LAMBDA e : e = event))

Logged(m, event) == [m EXCEPT !.log = Append(@, event)]

Returning(m, r) == [m EXCEPT !.ret = r]

\* d milliseconds pass: millis() moves away from the three timestamps the
\* code compares it with.  Time is counted between the calls and while a
\* join waits for the radio; the settling delays of a second and less
\* (delay(100), delay(1000), and the delays before a restart) are not.
\* Past the threshold it is compared against, an age makes no difference
\* and is not counted further; pressStart and the portal's _startTime are
\* not read while `pressed` and _active are false.
Elapsed(m, d) ==
    [m EXCEPT
        !.reconnectAge = Min(@ + d, RECONNECT_INTERVAL),
        !.pressAge = IF m.pressed THEN Min(@ + d, LONG_PRESS + 1) ELSE 0,
        !.pinHeld = IF m.pinLow /\ @ >= 0 THEN Min(@ + d, LONG_PRESS + 1)
                    ELSE @,
        !.portalAge = IF m.active THEN Min(@ + d, PORTAL_TIMEOUT + 1) ELSE 0]

\* the device restarts: PicoWiFiManager(config) and the statics of
\* checkResetButton are initialized again, the radio is off, the pin is
\* where the user holds it, the indeterminate bytes hold `pad`, and the
\* call that restarted it never returns
Restarted(m, pad) ==
    [m EXCEPT
        !.store = Storage_restart(@, pad),
        !.garbage = pad,
        !.isInitialized = FALSE,
        !.status = "DISCONNECTED",
        !.configMode = FALSE,
        !.reconnectAttempts = 0,
        !.reconnectAge = 0,
        !.active = FALSE,
        !.portalAge = 0,
        !.pressed = FALSE,
        !.pressAge = 0,
        !.linkUp = FALSE,
        !.apUp = FALSE,
        !.joinArgs = NoArgs,
        !.log = Append(@, "restart"),
        !.halted = TRUE]

\* setStatus() that notifies whether the status changes or not
setStatusAlways(m, status) == Logged([m EXCEPT !.status = status], status)

\* void setStatus(ConnectionStatus status)
setStatus(m, status) ==
    IF m.status # status
    THEN Logged([m EXCEPT !.status = status], status)
    ELSE m

\* the variant of ConfigPortal::start that forgets to set _active
Portal_startNeverActive(m) ==
    LET m1 == Logged([m EXCEPT !.linkUp = FALSE, !.apUp = m.apOk],
                     "WiFi.softAP")
    IN  IF ~m.apOk
        THEN Returning(m1, FALSE)
        ELSE Returning(m1, TRUE)

\* bool ConfigPortal::start(const char* ssid, const char* password)
Portal_start(m) ==
    LET m1 == Logged([m EXCEPT !.linkUp = FALSE, !.apUp = m.apOk],
                     "WiFi.softAP")
    IN  IF ~m.apOk
        THEN Returning(m1, FALSE)
        ELSE Returning([m1 EXCEPT !.active = TRUE, !.portalAge = 0], TRUE)

\* void ConfigPortal::stop()
Portal_stop(m) ==
    IF m.active
    THEN [m EXCEPT !.active = FALSE, !.portalAge = 0, !.apUp = FALSE]
    ELSE m

\* bool startConfigPortal(const char* ssid, const char* password)
Manager_startConfigPortal(m) ==
    LET m1 == Logged(m, "onConfigStart")
        m2 == setStatus([m1 EXCEPT !.configMode = TRUE], "CONFIG_MODE")
        m3 == Portal_start(m2)
    IN  IF m3.ret
        THEN Returning(m3, TRUE)
        ELSE Returning(setStatus([m3 EXCEPT !.configMode = FALSE], "ERROR"),
                       FALSE)

\* void stopConfigPortal()
Manager_stopConfigPortal(m) ==
    IF ~m.configMode
    THEN m
    ELSE Logged([Portal_stop(m) EXCEPT !.configMode = FALSE], "onConfigEnd")

\* connectWiFi() without the CONNECTING status before the join
Manager_connectWiFiNoConnecting(m, ssid, password) ==
    IF ssid.isNull \/ ssid.chars = <<>>
    THEN Returning(m, FALSE)
    ELSE
      LET m2 == [m EXCEPT !.linkUp = FALSE, !.apUp = FALSE]
          m3 == Logged([m2 EXCEPT
                           !.joinArgs = [ssid |-> ssid.chars,
                                         password |-> IF password.isNull THEN <<>>
                                                      ELSE password.chars]],
                       "WiFi.begin")
          m4 == IF m.joinOk
                THEN [m3 EXCEPT !.linkUp = TRUE]
                ELSE Elapsed(m3, m.config.connectTimeout * 1000)
      IN  IF m4.linkUp
          THEN Returning(
                 Logged([setStatus(m4, "CONNECTED") EXCEPT !.reconnectAttempts = 0],
                        "onConnect"),
                 TRUE)
          ELSE Returning(setStatus(m4, "DISCONNECTED"), FALSE)

\* connectWiFi() that leaves the reconnect counter alone after a join
Manager_connectWiFiKeepsCounter(m, ssid, password) ==
    IF ssid.isNull \/ ssid.chars = <<>>
    THEN Returning(m, FALSE)
    ELSE
      LET m1 == setStatus(m, "CONNECTING")
          m2 == [m1 EXCEPT !.linkUp = FALSE, !.apUp = FALSE]
          m3 == Logged([m2 EXCEPT
                           !.joinArgs = [ssid |-> ssid.chars,
                                         password |-> IF password.isNull THEN <<>>
                                                      ELSE password.chars]],
                       "WiFi.begin")
          m4 == IF m.joinOk
                THEN [m3 EXCEPT !.linkUp = TRUE]
                ELSE Elapsed(m3, m.config.connectTimeout * 1000)
      IN  IF m4.linkUp
          THEN Returning(Logged(setStatus(m4, "CONNECTED"), "onConnect"), TRUE)
          ELSE Returning(setStatus(m4, "DISCONNECTED"), FALSE)

\* bool connectWiFi(const char* ssid, const char* password): the join
\* succeeds at once or is given up after connectTimeout seconds
Manager_connectWiFi(m, ssid, password) ==
    IF ssid.isNull \/ ssid.chars = <<>>
    THEN Returning(m, FALSE)
    ELSE
      LET m1 == setStatus(m, "CONNECTING")
          m2 == [m1 EXCEPT !.linkUp = FALSE, !.apUp = FALSE]
          m3 == Logged([m2 EXCEPT
                           !.joinArgs = [ssid |-> ssid.chars,
                                         password |-> IF password.isNull THEN <<>>
                                                      ELSE password.chars]],
                       "WiFi.begin")
          m4 == IF m.joinOk
                THEN [m3 EXCEPT !.linkUp = TRUE]
                ELSE Elapsed(m3, m.config.connectTimeout * 1000)
      IN  IF m4.linkUp
          THEN Returning(
                 Logged([setStatus(m4, "CONNECTED") EXCEPT !.reconnectAttempts = 0],
                        "onConnect"),
                 TRUE)
          ELSE Returning(setStatus(m4, "DISCONNECTED"), FALSE)

\* reset() that restarts without clearing the store
Manager_resetKeepsStore(m) ==
    LET m1 == [Manager_stopConfigPortal(m) EXCEPT !.linkUp = FALSE]
    IN  Restarted(m1, m.restartPad)

\* void reset(): never returns
Manager_reset(m) ==
    LET m1 == [Manager_stopConfigPortal(m) EXCEPT !.linkUp = FALSE]
        m2 == IF m1.isInitialized
              THEN Logged([m1 EXCEPT !.store = Storage_clearAll(@, m.garbage)],
                          "clearAll")
              ELSE m1
    IN  Restarted(m2, m.restartPad)

\* the credentials the manager reads from the store
StoredCredentials(m) ==
    [ssid |-> Str(CStringAt(m.store.data, OFF_SSID, MAX_SSID_LENGTH)),
     password |-> Str(CStringAt(m.store.data, OFF_PASSWORD, MAX_PASSWORD_LENGTH))]

\* handleReconnection() that counts the tick on which it gives up as well
Manager_handleReconnectionCountsGiveUp(m) ==
    IF m.linkUp \/ m.configMode THEN m
    ELSE IF m.reconnectAge < RECONNECT_INTERVAL THEN m
    ELSE
      LET m1 == [m EXCEPT !.reconnectAttempts = (@ + 1) % 256]
      IN  IF m.reconnectAttempts >= m.config.maxReconnectAttempts
          THEN Manager_startConfigPortal(m1)
          ELSE IF Storage_loadFound(m1.store) /\ WifiValid(m1.store.data)
          THEN Manager_connectWiFi([m1 EXCEPT !.reconnectAge = 0],
                                   StoredCredentials(m1).ssid,
                                   StoredCredentials(m1).password)
          ELSE [m1 EXCEPT !.reconnectAge = 0]

\* handleReconnection() that never gives up
Manager_handleReconnectionNoLimit(m) ==
    IF m.linkUp \/ m.configMode THEN m
    ELSE IF m.reconnectAge < RECONNECT_INTERVAL THEN m
    ELSE
      LET m1 == [m EXCEPT !.reconnectAge = 0,
                          !.reconnectAttempts = (@ + 1) % 256]
      IN  IF Storage_loadFound(m1.store) /\ WifiValid(m1.store.data)
          THEN Manager_connectWiFi(m1, StoredCredentials(m1).ssid,
                                   StoredCredentials(m1).password)
          ELSE m1

\* handleReconnection() that does not wait between two attempts
Manager_handleReconnectionNoInterval(m) ==
    IF m.linkUp \/ m.configMode THEN m
    ELSE IF m.reconnectAttempts >= m.config.maxReconnectAttempts
    THEN Manager_startConfigPortal(m)
    ELSE
      LET m1 == [m EXCEPT !.reconnectAge = 0,
                          !.reconnectAttempts = (@ + 1) % 256]
      IN  IF Storage_loadFound(m1.store) /\ WifiValid(m1.store.data)
          THEN Manager_connectWiFi(m1, StoredCredentials(m1).ssid,
                                   StoredCredentials(m1).password)
          ELSE m1

\* handleReconnection() that does not count its attempts
Manager_handleReconnectionNoCount(m) ==
    IF m.linkUp \/ m.configMode THEN m
    ELSE IF m.reconnectAge < RECONNECT_INTERVAL THEN m
    ELSE IF m.reconnectAttempts >= m.config.maxReconnectAttempts
    THEN Manager_startConfigPortal(m)
    ELSE
      LET m1 == [m EXCEPT !.reconnectAge = 0]
      IN  IF Storage_loadFound(m1.store) /\ WifiValid(m1.store.data)
          THEN Manager_connectWiFi(m1, StoredCredentials(m1).ssid,
                                   StoredCredentials(m1).password)
          ELSE m1

\* handleReconnection() that, finding no valid credentials in the store,
\* joins the network of the last join again
Manager_handleReconnectionRejoinsLast(m) ==
    IF m.linkUp \/ m.configMode THEN m
    ELSE IF m.reconnectAge < RECONNECT_INTERVAL THEN m
    ELSE IF m.reconnectAttempts >= m.config.maxReconnectAttempts
    THEN Manager_startConfigPortal(m)
    ELSE
      LET m1 == [m EXCEPT !.reconnectAge = 0,
                          !.reconnectAttempts = (@ + 1) % 256]
      IN  IF Storage_loadFound(m1.store) /\ WifiValid(m1.store.data)
          THEN Manager_connectWiFi(m1, StoredCredentials(m1).ssid,
                                   StoredCredentials(m1).password)
          ELSE IF m1.joinArgs = NoArgs THEN m1
          ELSE Manager_connectWiFi(m1, Str(m1.joinArgs.ssid),
                                   Str(m1.joinArgs.password))

\* void handleReconnection()
Manager_handleReconnection(m) ==
    IF m.linkUp \/ m.configMode THEN m
    ELSE IF m.reconnectAge < RECONNECT_INTERVAL THEN m
    ELSE IF m.reconnectAttempts >= m.config.maxReconnectAttempts
    THEN Manager_startConfigPortal(m)
    ELSE
      LET m1 == [m EXCEPT !.reconnectAge = 0,
                          !.reconnectAttempts = (@ + 1) % 256]
      IN  IF Storage_loadFound(m1.store) /\ WifiValid(m1.store.data)
          THEN Manager_connectWiFi(m1, StoredCredentials(m1).ssid,
                                   StoredCredentials(m1).password)
          ELSE m1

\* checkResetButton() whose short press starts the portal in config mode too
Manager_checkResetButtonAlwaysStarts(m) ==
    IF m.config.resetPin = NO_PIN THEN m
    ELSE IF m.pinLow /\ ~m.pressed
    THEN [m EXCEPT !.pressed = TRUE, !.pressAge = 0]
    ELSE IF ~m.pinLow /\ m.pressed
    THEN
      LET pressDuration == m.pressAge
          m1 == [m EXCEPT !.pressed = FALSE, !.pressAge = 0,
                          !.hold = pressDuration]
      IN  IF pressDuration > LONG_PRESS THEN Manager_reset(m1)
          ELSE IF pressDuration > SHORT_PRESS
          THEN Manager_startConfigPortal(m1)
          ELSE m1
    ELSE m

\* checkResetButton() without the 100 ms of debounce
Manager_checkResetButtonNoDebounce(m) ==
    IF m.config.resetPin = NO_PIN THEN m
    ELSE IF m.pinLow /\ ~m.pressed
    THEN [m EXCEPT !.pressed = TRUE, !.pressAge = 0]
    ELSE IF ~m.pinLow /\ m.pressed
    THEN
      LET pressDuration == m.pressAge
          m1 == [m EXCEPT !.pressed = FALSE, !.pressAge = 0,
                          !.hold = pressDuration]
      IN  IF pressDuration > LONG_PRESS THEN Manager_reset(m1)
          ELSE (IF ~m1.configMode THEN Manager_startConfigPortal(m1) ELSE m1)
    ELSE m

\* void checkResetButton()
Manager_checkResetButton(m) ==
    IF m.config.resetPin = NO_PIN THEN m
    ELSE IF m.pinLow /\ ~m.pressed
    THEN [m EXCEPT !.pressed = TRUE, !.pressAge = 0]
    ELSE IF ~m.pinLow /\ m.pressed
    THEN
      LET pressDuration == m.pressAge
          m1 == [m EXCEPT !.pressed = FALSE, !.pressAge = 0,
                          !.hold = pressDuration]
      IN  IF pressDuration > LONG_PRESS THEN Manager_reset(m1)
          ELSE IF pressDuration > SHORT_PRESS
          THEN (IF ~m1.configMode THEN Manager_startConfigPortal(m1) ELSE m1)
          ELSE m1
    ELSE m

\* the lambda begin() passes to _portal->onConnect
Manager_onPortalConnect(m, ssid, password) ==
    LET m1 == Manager_connectWiFi(m, ssid, password) IN
    IF m1.ret
    THEN LET m2 == Logged([m1 EXCEPT !.store =
                       Storage_saveWiFiCredentials(@, ssid, password)],
                     "saveWiFiCredentials")
         IN  setStatus(Manager_stopConfigPortal(m2), "CONNECTED")
    ELSE m1

\* the requests a browser makes of the portal
NoRequest == [path |-> "none", ssid |-> <<>>, password |-> <<>>]
ConnectRequest(ssid, password) ==
    [path |-> "/connect", ssid |-> ssid, password |-> password]
ResetRequest == [path |-> "/reset", ssid |-> <<>>, password |-> <<>>]

\* void ConfigPortal::handleConnect()
Portal_handleConnect(m, request) ==
    IF Len(request.ssid) = 0
    THEN m
    ELSE Manager_onPortalConnect(m, Str(request.ssid), Str(request.password))

\* handleReset() that answers the page and never calls _onReset
Portal_handleResetNoCallback(m) == m

\* void ConfigPortal::handleReset(), with the lambda begin() passes to
\* _portal->onReset
Portal_handleReset(m) == Manager_reset(m)

\* handle() whose timeout ends the manager's config mode as well
Portal_handleTimeoutEndsConfigMode(m, request) ==
    IF ~m.active THEN m
    ELSE
      LET m1 == IF request.path = "/connect" THEN Portal_handleConnect(m, request)
                ELSE IF request.path = "/reset" THEN Portal_handleReset(m)
                ELSE m
      IN  IF m1.halted THEN m1
          ELSE IF m1.portalAge > PORTAL_TIMEOUT
          THEN setStatus(Manager_stopConfigPortal(m1), "DISCONNECTED")
          ELSE m1

\* void ConfigPortal::handle(): _server->handleClient() serves the request
\* that is waiting, and the timeout is checked
Portal_handle(m, request) ==
    IF ~m.active THEN m
    ELSE
      LET m1 == IF request.path = "/connect" THEN Portal_handleConnect(m, request)
                ELSE IF request.path = "/reset" THEN Portal_handleReset(m)
                ELSE m
      IN  IF m1.halted THEN m1
          ELSE IF m1.portalAge > PORTAL_TIMEOUT THEN Portal_stop(m1)
          ELSE m1

\* bool PicoWiFiManager::begin()
Manager_begin(m) ==
    IF m.isInitialized
    THEN Returning(m, TRUE)
    ELSE
      LET m1 == [m EXCEPT
                    !.store = Storage_begin(Storage_new(@, m.garbage), m.garbage),
                    !.active = FALSE, !.portalAge = 0]
      IN  Returning([setStatus(m1, "DISCONNECTED") EXCEPT !.isInitialized = TRUE],
                    TRUE)

\* autoConnect(ssid, password) that gives up when the join fails
Manager_autoConnectWithNoPortal(m, ssid, password) ==
    LET m1 == IF ~m.isInitialized THEN Manager_begin(m) ELSE m
    IN  Manager_connectWiFi(m1, ssid, password)

\* bool autoConnect(const char* ssid, const char* password)
Manager_autoConnectWith(m, ssid, password) ==
    LET m1 == IF ~m.isInitialized THEN Manager_begin(m) ELSE m
        m2 == Manager_connectWiFi(m1, ssid, password)
    IN  IF m2.ret THEN Returning(m2, TRUE) ELSE Manager_startConfigPortal(m2)

\* bool autoConnect()
Manager_autoConnect(m) ==
    LET m1 == IF ~m.isInitialized THEN Manager_begin(m) ELSE m IN
    IF Storage_loadFound(m1.store) /\ WifiValid(m1.store.data)
    THEN Manager_autoConnectWith(m1, StoredCredentials(m1).ssid,
                                 StoredCredentials(m1).password)
    ELSE Manager_startConfigPortal(m1)

\* void PicoWiFiManager::setTimeout(uint16_t seconds): the value is kept in
\* _config; ConfigPortal::setTimeout is called nowhere, so that the portal's
\* _timeout stays at the 300000 ms of its constructor
Manager_setTimeout(m, seconds) ==
    [m EXCEPT !.config.configPortalTimeout = seconds % 65536]

\* loop() that handles the reconnection whether or not config mode is on
Manager_loopReconnectsInConfigMode(m, request) ==
    IF ~m.isInitialized THEN m
    ELSE
      LET m1 == IF m.active THEN Portal_handle(m, request) ELSE m
          m2 == IF m1.halted THEN m1 ELSE Manager_checkResetButton(m1)
      IN  IF m2.halted THEN m2
          ELSE IF m2.config.autoReconnect
          THEN [Manager_handleReconnection([m2 EXCEPT !.configMode = FALSE])
                  EXCEPT !.configMode = @ \/ m2.configMode]
          ELSE m2

\* loop() that reconnects whatever _config.autoReconnect says
Manager_loopIgnoresAutoReconnect(m, request) ==
    IF ~m.isInitialized THEN m
    ELSE
      LET m1 == IF m.active THEN Portal_handle(m, request) ELSE m
          m2 == IF m1.halted THEN m1 ELSE Manager_checkResetButton(m1)
      IN  IF m2.halted THEN m2
          ELSE IF ~m2.configMode
          THEN Manager_handleReconnection(m2)
          ELSE m2

\* void loop()
Manager_loop(m, request) ==
    IF ~m.isInitialized THEN m
    ELSE
      LET m1 == IF m.active THEN Portal_handle(m, request) ELSE m
          m2 == IF m1.halted THEN m1 ELSE Manager_checkResetButton(m1)
      IN  IF m2.halted THEN m2
          ELSE IF ~m2.configMode /\ m2.config.autoReconnect
          THEN Manager_handleReconnection(m2)
          ELSE m2

(***************************************************************************)
(* Inputs.                                                                 *)
(***************************************************************************)
\* n printable characters, all different: 'A', 'B', ...
Ramp(n) == [i \in 1..n |-> 64 + i]
\* n printable characters, all different: '!', '"', ...
PwRamp(n) == [i \in 1..n |-> 32 + i]

\* (ssid, password) arguments of saveWiFiCredentials: the lengths around the
\* limits of the two buffers, the empty string and the null pointer
SaveInputs ==
    {<<Str(<<>>), Str(<<120>>)>>,
     <<NULLPTR, Str(<<120>>)>>,
     <<Str(Ramp(1)), NULLPTR>>,
     <<Str(Ramp(31)), Str(PwRamp(63))>>,
     <<Str(Ramp(32)), Str(PwRamp(64))>>,
     <<Str(Ramp(33)), Str(PwRamp(65))>>}

NetworkInputs ==
    {[useStaticIP |-> TRUE, staticIP |-> LE32(50, 1, 168, 192),
      gateway |-> LE32(1, 1, 168, 192), subnet |-> LE32(0, 255, 255, 255),
      primaryDNS |-> LE32(8, 8, 8, 8), secondaryDNS |-> LE32(4, 4, 8, 8)]}

DeviceInputs ==
    {[hostname |-> <<112, 105, 99, 111>>, autoReconnect |-> FALSE,
      maxReconnectAttempts |-> 5, connectTimeout |-> 10]}

\* a caller's WiFiCredentials object: WiFiCredentials(), then the fields set
WifiInputs ==
    {[ssid |-> Ramp(4), password |-> PwRamp(8), valid |-> TRUE]}

\* the configurations a sketch constructs the manager with
ConfigInputs ==
    {PicoWiFiConfigDefault,
     [PicoWiFiConfigDefault EXCEPT !.autoReconnect = FALSE]}

\* the stretches of time after which something has become due, or is due
\* a millisecond later: the next reconnection attempt, or the timeout of
\* the portal
Deadlines ==
    {d \in {RECONNECT_INTERVAL - 1 - reconnectAge,
            RECONNECT_INTERVAL - reconnectAge,
            IF _active THEN PORTAL_TIMEOUT - portalAge ELSE 0,
            IF _active THEN PORTAL_TIMEOUT + 1 - portalAge ELSE 0} : d > 0}

(***************************************************************************)
(* The initial state: a device restarted over erased flash.  The objects   *)
(* are constructed (PicoWiFiManager(config), StorageManager()) and no      *)
(* begin() has run.                                                        *)
(***************************************************************************)
Init ==
    /\ _initialized = FALSE
    /\ garbage \in PadBytes
    /\ _data = StorageDataDefault(garbage)
    /\ eeprom = [i \in Offsets |-> 255]
    /\ eepromBegun = FALSE
    /\ _config \in ConfigInputs
    /\ _isInitialized = FALSE
    /\ _status = "DISCONNECTED"
    /\ _configMode = FALSE
    /\ _reconnectAttempts = 0
    /\ reconnectAge = 0
    /\ _active = FALSE
    /\ portalAge = 0
    /\ pressed = FALSE
    /\ pressAge = 0
    /\ pinLow = FALSE
    /\ pinHeld \in {-1, 0}
    /\ linkUp = FALSE
    /\ apUp = FALSE
    /\ radioFault = FALSE
    /\ joinArgs = NoArgs
    /\ op = "restart"
    /\ ret = TRUE
    /\ args = NoArgs
    /\ credentials = NoCredentials
    /\ log = <<>>
    /\ nops = 0
    /\ saved = NoArgs
    /\ sinceSave = "none"
    /\ sinceClear = "none"
    /\ corrupted = "no"
    /\ tickJoins = 0
    /\ joinedBy = "none"
    /\ lastHold = -1
    /\ notified = "none"

\* the same, the manager configured with the defaults
InitDefault == Init /\ _config = PicoWiFiConfigDefault /\ pinHeld = -1

\* the same, with somebody timing how long the pin is held low
InitTimed == Init /\ _config = PicoWiFiConfigDefault /\ pinHeld = 0

\* what every call records about itself
Called(name, r, a) ==
    /\ op' = name
    /\ ret' = r
    /\ args' = a

\* the store after a call
SetStore(s) ==
    /\ _initialized' = s.initialized
    /\ _data' = s.data
    /\ eeprom' = s.eeprom
    /\ eepromBegun' = s.begun

\* a call of the store's interface that returns r and leaves the store s
StoreCalled(name, r, a, s) ==
    \E after \in {s} :
        /\ Called(name, r, a)
        /\ SetStore(after)
        /\ UNCHANGED <<credentials, log, managerVars, hardwareVars,
                   observerVars>>

(***************************************************************************)
(* StorageManager's operations, called by a sketch that uses the store     *)
(* alone.                                                                  *)
(***************************************************************************)
restart ==
    \E pad \in PadBytes :
        StoreCalled("restart", TRUE, NoArgs, Storage_restart(Store, pad))

begin ==
    \E pad \in PadBytes :
        StoreCalled("begin", TRUE, NoArgs, Storage_begin(Store, pad))

format ==
    \E pad \in PadBytes :
        StoreCalled("format", TRUE, NoArgs, Storage_format(Store, pad))

saveWiFiCredentials(ssid, password) ==
    StoreCalled("saveWiFiCredentials",
                Storage_saveWiFiCredentialsRet(Store, ssid),
                [ssid |-> ssid, password |-> password],
                Storage_saveWiFiCredentials(Store, ssid, password))

loadWiFiCredentials ==
    /\ Called("loadWiFiCredentials", Storage_loadFound(Store), NoArgs)
    /\ credentials' = Storage_loadWiFiCredentials(Store, credentials)
    /\ UNCHANGED <<storeVars, log, managerVars, hardwareVars,
                   observerVars>>

clearWiFiCredentials ==
    StoreCalled("clearWiFiCredentials", TRUE, NoArgs,
                Storage_clearWiFiCredentials(Store))

saveNetworkConfig(config, pad) ==
    StoreCalled("saveNetworkConfig", _initialized, config,
                Storage_saveNetworkConfig(Store, config, pad))

clearNetworkConfig(pad) ==
    StoreCalled("clearNetworkConfig", TRUE, NoArgs,
                Storage_clearNetworkConfig(Store, pad))

saveDeviceConfig(config) ==
    StoreCalled("saveDeviceConfig", _initialized, config,
                Storage_saveDeviceConfig(Store, config))

clearDeviceConfig ==
    StoreCalled("clearDeviceConfig", TRUE, NoArgs,
                Storage_clearDeviceConfig(Store))

saveAll(wifi, network, pad, device) ==
    StoreCalled("saveAll", _initialized,
                [wifi |-> wifi, network |-> network, device |-> device],
                Storage_saveAll(Store, wifi, network, pad, device))

clearAll(pad) ==
    StoreCalled("clearAll", TRUE, NoArgs, Storage_clearAll(Store, pad))

repairIfNeeded ==
    \E pad \in PadBytes :
        StoreCalled("repairIfNeeded", _initialized, NoArgs,
                    Storage_repairIfNeeded(Store, pad))

\* a byte of a persisted record that validates changes under the store: the
\* bits of `mask` flip
corruptByte(pos, mask) ==
    /\ corrupted = "no"
    /\ validateData(eeprom)
    /\ Called("corruptByte", TRUE, [pos |-> pos, mask |-> mask])
    /\ eeprom' = [eeprom EXCEPT ![pos] = BitXor(eeprom[pos], mask)]
    /\ UNCHANGED <<_initialized, _data, eepromBegun, credentials, log,
                   managerVars, hardwareVars,
                   observerVars>>

\* the calls that go through saveToEEPROM when they do anything
MutatingOps ==
    {"saveWiFiCredentials", "saveNetworkConfig", "saveDeviceConfig", "saveAll",
     "clearWiFiCredentials", "clearNetworkConfig", "clearDeviceConfig",
     "clearAll", "format"}

\* the story so far, after the call that op', ret' and args' describe
Story ==
    /\ saved' =
         IF op' = "saveWiFiCredentials" /\ ret' THEN args' ELSE saved
    /\ sinceSave' =
         IF op' = "saveWiFiCredentials" /\ ret' THEN "saved"
         ELSE IF op' = "loadWiFiCredentials" \/ ~ret' THEN sinceSave
         ELSE IF op' = "restart"
         THEN (IF sinceSave \in {"saved", "reopened"} THEN "restarted" ELSE sinceSave)
         ELSE IF op' = "begin"
         THEN (IF sinceSave = "restarted" THEN "reopened" ELSE sinceSave)
         ELSE "none"
    /\ sinceClear' =
         IF op' \in {"clearWiFiCredentials", "clearAll"} /\ _initialized
         THEN "cleared"
         ELSE IF op' = "saveWiFiCredentials" /\ ret' THEN "none"
         ELSE IF op' = "saveAll" /\ ret' /\ args'.wifi.valid /\ sinceClear = "cleared"
         THEN "savedAll"
         ELSE sinceClear
    /\ corrupted' =
         IF op' = "corruptByte" THEN "corrupted"
         ELSE IF op' = "begin"
         THEN (IF corrupted = "corrupted" THEN "recovered" ELSE corrupted)
         ELSE IF op' \in MutatingOps \/ op' = "repairIfNeeded" THEN "no"
         ELSE corrupted

\* one more call
Counted ==
    /\ nops' = nops + 1
    /\ Story

\* every sequence of at most MaxOps calls of the store's interface and
\* restarts
NextStore ==
    \/ nops < MaxOps /\ restart /\ Counted
    \/ nops < MaxOps /\ begin /\ Counted
    \/ nops < MaxOps /\ format /\ Counted
    \/ \E in \in SaveInputs :
          nops < MaxOps /\ saveWiFiCredentials(in[1], in[2]) /\ Counted
    \/ nops < MaxOps /\ loadWiFiCredentials /\ Counted
    \/ nops < MaxOps /\ clearWiFiCredentials /\ Counted
    \/ \E config \in NetworkInputs, pad \in PadBytes :
          nops < MaxOps /\ saveNetworkConfig(config, pad) /\ Counted
    \/ \E pad \in PadBytes :
          nops < MaxOps /\ clearNetworkConfig(pad) /\ Counted
    \/ \E config \in DeviceInputs :
          nops < MaxOps /\ saveDeviceConfig(config) /\ Counted
    \/ nops < MaxOps /\ clearDeviceConfig /\ Counted
    \/ \E wifi \in WifiInputs, network \in NetworkInputs, pad \in PadBytes,
          device \in DeviceInputs :
          nops < MaxOps /\ saveAll(wifi, network, pad, device) /\ Counted
    \/ \E pad \in PadBytes : nops < MaxOps /\ clearAll(pad) /\ Counted
    \/ nops < MaxOps /\ repairIfNeeded /\ Counted

SpecStore == InitDefault /\ [][NextStore]_vars

\* credentials saved, the device restarted and the store opened again, any
\* number of times
ReopenInputs ==
    {<<Str(Ramp(31)), Str(PwRamp(63))>>, <<Str(Ramp(1)), Str(<<>>)>>,
     <<Str(<<83>>), Str(<<>>)>>}

Uncounted == nops' = nops /\ Story

NextReopen ==
    \/ restart /\ Uncounted
    \/ begin /\ Uncounted
    \/ \E in \in ReopenInputs : saveWiFiCredentials(in[1], in[2]) /\ Uncounted
    \/ loadWiFiCredentials /\ Uncounted

SpecReopen == InitDefault /\ [][NextReopen]_vars

\* a byte of a persisted record changes, and the store is opened again.
\* With a connectTimeout of 76 s (0x4C) and zeroed padding, the bytes of the
\* default record outside its checksum field XOR to zero.
CorruptDevice ==
    [hostname |-> <<112, 105, 99, 111, 50, 119>>, autoReconnect |-> TRUE,
     maxReconnectAttempts |-> 3, connectTimeout |-> 76]

\* a byte of every field and of every stretch of padding, and the first and
\* the last bytes of the reserved area
CorruptPositions ==
    {0, 4, 5, 12, 44, 108, 109, 112, 113, 116, 136, 170, 172, 231, 232, 235}

CorruptMasks == {1, 255}

NextCorrupt ==
    \/ nops < MaxCorruptOps /\ restart /\ Counted
    \/ nops < MaxCorruptOps /\ begin /\ Counted
    \/ nops < MaxCorruptOps /\ saveDeviceConfig(CorruptDevice) /\ Counted
    \/ \E pos \in CorruptPositions, mask \in CorruptMasks :
          nops < MaxCorruptOps /\ corruptByte(pos, mask) /\ Counted

SpecCorrupt == InitDefault /\ [][NextCorrupt]_vars

(***************************************************************************)
(* The sketch drives the manager: its public calls, and what the user, the *)
(* radio and the clock do between them.                                    *)
(***************************************************************************)
\* the device after a call
Become(m) ==
    /\ SetStore(m.store)
    /\ _config' = m.config
    /\ _isInitialized' = m.isInitialized
    /\ _status' = m.status
    /\ _configMode' = m.configMode
    /\ _reconnectAttempts' = m.reconnectAttempts
    /\ reconnectAge' = m.reconnectAge
    /\ _active' = m.active
    /\ portalAge' = m.portalAge
    /\ pressed' = m.pressed
    /\ pressAge' = m.pressAge
    /\ pinLow' = m.pinLow
    /\ pinHeld' = IF ~m.pinLow /\ ~m.pressed /\ m.pinHeld >= 0 THEN 0
                  ELSE m.pinHeld
    /\ linkUp' = m.linkUp
    /\ apUp' = m.apUp
    /\ radioFault' = m.radioFault
    /\ joinArgs' = m.joinArgs
    /\ garbage' = m.garbage
    /\ log' = m.log

\* what an observer of the callbacks, of the radio and of the button has
\* seen after a call that logged l and measured the hold `hold`
Observed(name, a, l, hold) ==
    /\ tickJoins' =
          IF CountOf("restart", l) > 0 \/ CountOf("onConnect", l) > 0 THEN 0
          ELSE IF name = "loop" /\ a = NoRequest
          THEN tickJoins + CountOf("WiFi.begin", l)
          ELSE tickJoins
    /\ joinedBy' =
          IF CountOf("restart", l) > 0 THEN "none"
          ELSE IF CountOf("onConnect", l) = 0 THEN joinedBy
          ELSE IF name # "loop" THEN name
          ELSE IF a = NoRequest THEN "tick" ELSE "portal"
    /\ lastHold' = IF hold # -1 THEN hold ELSE lastHold
    /\ notified' =
          IF CountOf("restart", l) > 0 THEN "none"
          ELSE IF SelectSeq(l, IsStatus) # <<>>
          THEN SelectSeq(l, IsStatus)[Len(SelectSeq(l, IsStatus))]
          ELSE notified

\* a call of the manager's interface that returns r and leaves the device m
ManagerCalled(name, r, a, m) ==
    /\ Called(name, r, a)
    /\ Become(m)
    /\ Observed(name, a, m.log, m.hold)
    /\ UNCHANGED <<credentials, storyVars>>

\* something outside the program happens
Happened(name, a) ==
    /\ Called(name, TRUE, a)
    /\ log' = <<>>
    /\ UNCHANGED <<credentials, storyVars, storeVars, observerVars>>

PicoWiFiManager_begin ==
    \E m \in {Manager_begin(Machine(FALSE, FALSE, garbage))} :
        ManagerCalled("PicoWiFiManager::begin", m.ret, NoArgs, m)

autoConnect ==
    \E joinOk \in BOOLEAN, apOk \in BOOLEAN :
        \E m \in {Manager_autoConnect(Machine(joinOk, apOk, garbage))} :
            ManagerCalled("autoConnect", m.ret, NoArgs, m)

autoConnectWith(ssid, password) ==
    \E joinOk \in BOOLEAN, apOk \in BOOLEAN :
        \E m \in {Manager_autoConnectWith(Machine(joinOk, apOk, garbage),
                                          Str(ssid), Str(password))} :
            ManagerCalled("autoConnectWith", m.ret,
                          [ssid |-> ssid, password |-> password], m)

\* what the indeterminate bytes can hold after a loop(): it restarts the
\* device only when the button is let go or the portal is asked to
RestartPads(request) ==
    IF pressed \/ request.path = "/reset" THEN PadBytes ELSE {garbage}

\* loop() with no request waiting at the portal
loop ==
    \E joinOk \in BOOLEAN, apOk \in BOOLEAN, pad \in RestartPads(NoRequest) :
        \E m \in {Manager_loop(Machine(joinOk, apOk, pad), NoRequest)} :
            ManagerCalled("loop", TRUE, NoRequest, m)

\* loop() with a request waiting at the portal, which a browser can only
\* have sent over the access point or over the joined network
loopServing(request) ==
    /\ _isInitialized /\ _active /\ (apUp \/ linkUp)
    /\ \E joinOk \in BOOLEAN, apOk \in BOOLEAN, pad \in RestartPads(request) :
          \E m \in {Manager_loop(Machine(joinOk, apOk, pad), request)} :
              ManagerCalled("loop", TRUE, request, m)

\* startConfigPortal(), which dereferences _portal: begin() has run
startConfigPortal ==
    /\ _isInitialized
    /\ \E apOk \in BOOLEAN :
          \E m \in {Manager_startConfigPortal(Machine(FALSE, apOk, garbage))} :
              ManagerCalled("startConfigPortal", m.ret, NoArgs, m)

stopConfigPortal ==
    \E m \in {Manager_stopConfigPortal(Machine(FALSE, FALSE, garbage))} :
        ManagerCalled("stopConfigPortal", TRUE, NoArgs, m)

reset ==
    \E pad \in PadBytes :
        \E m \in {Manager_reset(Machine(FALSE, FALSE, pad))} :
            ManagerCalled("reset", TRUE, NoArgs, m)

\* the power is cut and comes back
powerCycle ==
    \E pad \in PadBytes :
        \E m \in {Restarted(Machine(FALSE, FALSE, pad), pad)} :
            ManagerCalled("powerCycle", TRUE, NoArgs, m)

\* the joined network goes away
linkLost ==
    /\ linkUp
    /\ linkUp' = FALSE
    /\ Happened("linkLost", NoArgs)
    /\ UNCHANGED <<managerVars, pinLow, pinHeld, apUp, radioFault,
                   joinArgs, garbage>>

\* the radio, left in station mode with a network to join, joins it by
\* itself
linkBack ==
    /\ ~linkUp /\ ~apUp /\ joinArgs # NoArgs
    /\ linkUp' = TRUE
    /\ Happened("linkBack", NoArgs)
    /\ UNCHANGED <<managerVars, pinLow, pinHeld, apUp, radioFault,
                   joinArgs, garbage>>

\* the radio fails hard: the link goes, and from now on a join ends with a
\* failure reported by the radio
radioFails ==
    /\ ~radioFault
    /\ radioFault' = TRUE
    /\ linkUp' = FALSE
    /\ Happened("radioFails", NoArgs)
    /\ UNCHANGED <<managerVars, pinLow, pinHeld, apUp, joinArgs, garbage>>

\* the user presses the button on _config.resetPin
press ==
    /\ ~pinLow
    /\ nops < MaxPresses
    /\ pinLow' = TRUE
    /\ pinHeld' = IF pinHeld >= 0 THEN 0 ELSE pinHeld
    /\ nops' = nops + 1
    /\ Called("press", TRUE, NoArgs)
    /\ log' = <<>>
    /\ UNCHANGED <<credentials, saved, sinceSave, sinceClear, corrupted,
                   storeVars, observerVars>>
    /\ UNCHANGED <<managerVars, linkUp, apUp, radioFault, joinArgs,
                   garbage>>

\* the user lets go of it
release ==
    /\ pinLow
    /\ pinLow' = FALSE
    /\ Happened("release", NoArgs)
    /\ UNCHANGED <<managerVars, pinHeld, linkUp, apUp, radioFault, joinArgs,
                   garbage>>

\* d milliseconds pass between two calls
advance(d) ==
    \E m \in {Elapsed(Machine(FALSE, FALSE, garbage), d)} :
    /\ <<m.reconnectAge, m.pressAge, m.portalAge>>
          # <<reconnectAge, pressAge, portalAge>>
    /\ ManagerCalled("advance", TRUE, [d |-> d], m)

\* the credentials a sketch passes to autoConnect(ssid, password)
ExplicitInputs == {<<(<<83>>), <<>>>>}

\* the life of a connection, on a device configured with the defaults.
\* The sketch is the usual one: its setup() calls autoConnect(), after a
\* begin() of its own or without, or autoConnect(ssid, password) with the
\* credentials it wants joined, and its loop() calls loop().  The user
\* fills in the form of the portal, the network comes and goes, the time
\* for the next attempt and for the timeout of the portal comes, and the
\* power is cut.
FormInputs == {<<(<<83>>), <<>>>>, <<(<<>>), <<120>>>>}

InSetup == ~_isInitialized \/ op = "PicoWiFiManager::begin"

Next ==
    \/ ~_isInitialized /\ PicoWiFiManager_begin
    \/ InSetup /\ autoConnect
    \/ \E in \in ExplicitInputs : InSetup /\ autoConnectWith(in[1], in[2])
    \/ ~InSetup /\ loop
    \/ \E in \in FormInputs :
          ~InSetup /\ loopServing(ConnectRequest(in[1], in[2]))
    \/ powerCycle
    \/ linkLost
    \/ linkBack
    \/ \E d \in Deadlines : advance(d)

Spec == InitDefault /\ [][Next]_vars

\* loop() with no request waiting at the portal, while no network can be
\* joined
loopOffline(apOk) ==
    \E m \in {Manager_loop(Machine(FALSE, apOk, garbage), NoRequest)} :
        ManagerCalled("loop", TRUE, NoRequest, m)

\* the same life with the network of a joined device gone for good: the
\* joins of setup() and of the form may succeed, the joins the ticks start
\* fail, and the power stays on.  The sketch keeps calling loop() and the
\* clock keeps running; the access point is not promised to start, so a
\* tick is only promised to happen with the radio refusing it.
NextOffline ==
    \/ ~_isInitialized /\ PicoWiFiManager_begin
    \/ InSetup /\ autoConnect
    \/ \E in \in ExplicitInputs : InSetup /\ autoConnectWith(in[1], in[2])
    \/ \E apOk \in BOOLEAN : ~InSetup /\ loopOffline(apOk)
    \/ \E in \in FormInputs :
          ~InSetup /\ loopServing(ConnectRequest(in[1], in[2]))
    \/ linkLost
    \/ \E d \in Deadlines : advance(d)

SpecOffline ==
    /\ InitDefault
    /\ [][NextOffline]_vars
    /\ WF_vars(~InSetup /\ loopOffline(FALSE))
    /\ WF_vars(\E d \in Deadlines : advance(d))

\* the stretches of time after which a button held down has been held for
\* as long as checkResetButton compares with, or a millisecond longer; with
\* the button up, the time until the next reconnection attempt
ButtonDeadlines ==
    IF pressed
    THEN {d \in {SHORT_PRESS - pressAge, SHORT_PRESS + 1 - pressAge,
                 LONG_PRESS - pressAge, LONG_PRESS + 1 - pressAge} : d > 0}
    ELSE {d \in {RECONNECT_INTERVAL - reconnectAge} : d > 0}

\* the same life with the user at the button on _config.resetPin, and the
\* power left on
NextButton ==
    \/ ~_isInitialized /\ PicoWiFiManager_begin
    \/ InSetup /\ autoConnect
    \/ ~InSetup /\ loop
    \/ \E in \in ExplicitInputs :
          ~InSetup /\ loopServing(ConnectRequest(in[1], in[2]))
    \/ press
    \/ release
    \/ linkLost
    \/ \E d \in ButtonDeadlines : advance(d)

SpecButton == InitDefault /\ [][NextButton]_vars

\* bool isConnected() const
isConnected == _status = "CONNECTED" /\ linkUp

\* the same life with a radio that can fail hard, and the power left on
NextFault ==
    \/ ~_isInitialized /\ PicoWiFiManager_begin
    \/ InSetup /\ autoConnect
    \/ \E in \in ExplicitInputs : InSetup /\ autoConnectWith(in[1], in[2])
    \/ ~InSetup /\ loop
    \/ \E in \in ExplicitInputs :
          ~InSetup /\ loopServing(ConnectRequest(in[1], in[2]))
    \/ linkLost
    \/ radioFails
    \/ \E d \in Deadlines : advance(d)

SpecFault == InitDefault /\ [][NextFault]_vars

\* what a user types into the portal's form: a short network name with and
\* without a password, the longest network name a radio accepts (32 bytes),
\* and the longest key (64 bytes)
PortalInputs ==
    {<<(<<83>>), <<>>>>,
     <<(<<83>>), <<112>>>>,
     <<[i \in 1..32 |-> 83], <<>>>>,
     <<(<<83>>), [i \in 1..64 |-> 112]>>}

\* the life of a device that is configured through its portal
NextPortal ==
    \/ ~_isInitialized /\ PicoWiFiManager_begin
    \/ InSetup /\ autoConnect
    \/ ~InSetup /\ loop
    \/ \E in \in PortalInputs :
          ~InSetup /\ loopServing(ConnectRequest(in[1], in[2]))
    \/ linkLost
    \/ \E d \in Deadlines : advance(d)

SpecPortal == InitDefault /\ [][NextPortal]_vars

\* the stretches of time after which a button held down has been held for
\* long enough to start the portal, for the 3000 ms checkResetButton asks of
\* a factory reset, or for a millisecond longer
ResetDeadlines ==
    IF pressed
    THEN {d \in {SHORT_PRESS + 1 - pressAge, LONG_PRESS - pressAge,
                 LONG_PRESS + 1 - pressAge} : d > 0}
    ELSE {}

\* the life of a device whose user asks for a factory reset, at the button
\* or on the portal's page
NextReset ==
    \/ ~_isInitialized /\ PicoWiFiManager_begin
    \/ InSetup /\ autoConnect
    \/ ~InSetup /\ loop
    \/ \E in \in ExplicitInputs :
          ~InSetup /\ loopServing(ConnectRequest(in[1], in[2]))
    \/ ~InSetup /\ loopServing(ResetRequest)
    \/ press
    \/ release
    \/ \E d \in ResetDeadlines : advance(d)

SpecReset == InitDefault /\ [][NextReset]_vars

\* the life of a device whose button is held and let go while somebody
\* times the pin, whenever the sketch gets round to calling loop()
SpecTimed == InitTimed /\ [][NextButton]_vars

\* the life of a connection on a device whose store can be cleared again:
\* the portal's page asks for the factory reset
NextForget ==
    \/ ~_isInitialized /\ PicoWiFiManager_begin
    \/ InSetup /\ autoConnect
    \/ \E in \in ExplicitInputs : InSetup /\ autoConnectWith(in[1], in[2])
    \/ ~InSetup /\ loop
    \/ \E in \in ExplicitInputs :
          ~InSetup /\ loopServing(ConnectRequest(in[1], in[2]))
    \/ ~InSetup /\ loopServing(ResetRequest)
    \/ linkLost
    \/ \E d \in Deadlines : advance(d)

SpecForget == InitDefault /\ [][NextForget]_vars

\* a device whose sketch has constructed the manager with autoReconnect
\* switched off
InitManual ==
    /\ Init
    /\ _config = [PicoWiFiConfigDefault EXCEPT !.autoReconnect = FALSE]
    /\ pinHeld = -1

\* the life of a connection on such a device
SpecManual == InitManual /\ [][Next]_vars

setTimeout(seconds) ==
    \E m \in {Manager_setTimeout(Machine(FALSE, FALSE, garbage), seconds)} :
        ManagerCalled("setTimeout", TRUE, [seconds |-> seconds], m)

\* the timeouts a sketch asks for: a minute, and ten minutes
TimeoutInputs == {60, 600}

\* the stretches of time after which the portal has been up for as long as
\* the manager was told to keep it up, or for a millisecond more, and the
\* ones of Deadlines
TimeoutDeadlines ==
    Deadlines \cup
    {d \in {IF _active THEN _config.configPortalTimeout * 1000 - portalAge
            ELSE 0,
            IF _active THEN _config.configPortalTimeout * 1000 + 1 - portalAge
            ELSE 0} : d > 0}

\* the life of a portal on a device whose sketch sets the timeout of the
\* portal, in setup() or later
NextTimeout ==
    \/ ~_isInitialized /\ PicoWiFiManager_begin
    \/ InSetup /\ autoConnect
    \/ \E s \in TimeoutInputs : setTimeout(s)
    \/ ~InSetup /\ loop
    \/ \E in \in ExplicitInputs :
          ~InSetup /\ loopServing(ConnectRequest(in[1], in[2]))
    \/ \E d \in TimeoutDeadlines : advance(d)

SpecTimeout == InitDefault /\ [][NextTimeout]_vars
(***************************************************************************)
(* The claims about the store.                                             *)
(***************************************************************************)
StoredSsid(d) == CStringAt(d, OFF_SSID, MAX_SSID_LENGTH)
StoredPassword(d) == CStringAt(d, OFF_PASSWORD, MAX_PASSWORD_LENGTH)
PasswordChars(a) == IF a.password.isNull THEN <<>> ELSE a.password.chars
Take(chars, n) == [i \in 1..(IF Len(chars) < n THEN Len(chars) ELSE n) |-> chars[i]]
Printable(chars) == \A i \in 1..Len(chars) : chars[i] >= 32 /\ chars[i] <= 126
WifiUnchanged == WifiOf(_data') = WifiOf(_data) /\ WifiOf(eeprom') = WifiOf(eeprom)

\* C1: credentials saved with an ssid of 1..31 printable bytes and a password
\* of at most 63 bytes are still there after a restart and begin():
\* loadWiFiCredentials returns true and hands out that ssid and password.
C1_CredentialsSurviveReopen ==
    (sinceSave = "reopened" /\ op = "loadWiFiCredentials") =>
        /\ ret
        /\ CStringAt(credentials, 0, MAX_SSID_LENGTH) = saved.ssid.chars
        /\ CStringAt(credentials, MAX_SSID_LENGTH, MAX_PASSWORD_LENGTH)
              = PasswordChars(saved)

\* C2: whenever the persisted bytes change (every change is a write by
\* saveToEEPROM), the bytes read back pass validateData.
C2_WrittenRecordValidates ==
    [][eeprom' # eeprom => validateData(eeprom')]_vars

\* C3: after one byte outside the checksum field of the persisted record has
\* changed, the record fails validateData, and the next begin() leaves a
\* valid default record without credentials in memory and in the flash.
C3_CorruptionDetectedAndRepaired ==
    /\ op = "corruptByte" => ~validateData(eeprom)
    /\ (corrupted = "recovered" /\ op = "begin") =>
          /\ validateData(_data)
          /\ validateData(eeprom)
          /\ ~WifiValid(_data)

\* C4: whenever the store is initialized, the record in memory passes
\* validateData: isValid() and performIntegrityCheck() return true.
C4_InitializedRecordIsValid ==
    _initialized => (isValid /\ performIntegrityCheck)

\* C5: saveWiFiCredentials with an empty ssid returns false and leaves the
\* stored credentials as they were, in memory and in the flash.
C5_EmptySsidRejected ==
    [][(op' = "saveWiFiCredentials" /\ ~args'.ssid.isNull
            /\ args'.ssid.chars = <<>>)
        => (ret' = FALSE /\ WifiUnchanged)]_vars

\* C6: saveWiFiCredentials with an ssid of more than 32 bytes returns false
\* and leaves the stored credentials as they were; with an ssid of 1..32
\* printable bytes it returns true and stores the ssid whole.
C6_SsidLengthChecked ==
    [][(op' = "saveWiFiCredentials" /\ ~args'.ssid.isNull) =>
        /\ Len(args'.ssid.chars) > MAX_SSID_LENGTH
              => (ret' = FALSE /\ WifiUnchanged)
        /\ (_initialized /\ Len(args'.ssid.chars) \in 1..MAX_SSID_LENGTH
                /\ Printable(args'.ssid.chars))
              => (ret' /\ StoredSsid(_data') = args'.ssid.chars)]_vars

C8_FoundFalseUntilSave ==
    /\ op = "loadWiFiCredentials" => ret = (_initialized /\ WifiValid(_data))
    /\ sinceClear \in {"cleared", "savedAll"} => ~loadFound

\* C8 as amended: loadWiFiCredentials returns true exactly when the store is
\* initialized and the stored wifi.valid is set; and once the credentials of
\* an opened store are cleared, it would return false until a
\* saveWiFiCredentials succeeds or a saveAll stores credentials whose valid
\* flag is set.
C8_FoundFalseUntilSaveOrSaveAll ==
    /\ op = "loadWiFiCredentials" => ret = (_initialized /\ WifiValid(_data))
    /\ sinceClear = "cleared" => ~loadFound

\* credentials were saved and then cleared, and the store is still open
C8_Witness ==
    /\ sinceClear = "cleared"
    /\ saved # NoArgs
    /\ _initialized
    /\ ~loadFound

\* C9: on a store that begin() has not opened, none of the mutating calls
\* changes the record in memory or the persisted bytes.
C9_UnopenedStoreUntouched ==
    [][(~_initialized /\ op' \in MutatingOps)
        => (_data' = _data /\ eeprom' = eeprom)]_vars

(***************************************************************************)
(* The claims about the orchestrator.                                      *)
(***************************************************************************)
\* the statuses _onStatusChange was called with during the last call
StatusChanges == SelectSeq(log, IsStatus)
\* a fresh device: the sketch is still in its setup() and the flash holds no
\* record that validates
FreshDevice == InSetup /\ ~validateData(eeprom)

\* C10 as stated: autoConnect() as the first call on a device whose flash
\* holds no valid record finds the status DISCONNECTED, changes it once, to
\* CONFIG_MODE, leaves the portal active and config mode on, and calls
\* WiFi.begin at no point.
C10_FreshAutoConnectEndsInConfigMode ==
    [][(op' = "autoConnect" /\ FreshDevice) =>
        /\ _status = "DISCONNECTED"
        /\ StatusChanges' = <<"CONFIG_MODE">>
        /\ _status' = "CONFIG_MODE"
        /\ _configMode'
        /\ _active'
        /\ CountOf("WiFi.begin", log') = 0]_vars

\* C10 as amended: autoConnect() as the first call on a device whose flash
\* holds no valid record finds the status DISCONNECTED, changes it first to
\* CONFIG_MODE, starts the portal once and calls WiFi.begin at no point.
\* When the access point starts, it returns true with the status
\* CONFIG_MODE, config mode on and the portal active; when the access point
\* fails to start, the status goes on to ERROR and it returns false with
\* config mode off and the portal inactive.
C10_FreshAutoConnectStartsPortal ==
    [][(op' = "autoConnect" /\ FreshDevice) =>
        /\ _status = "DISCONNECTED"
        /\ CountOf("WiFi.begin", log') = 0
        /\ CountOf("WiFi.softAP", log') = 1
        /\ IF apUp'
           THEN /\ ret'
                /\ StatusChanges' = <<"CONFIG_MODE">>
                /\ _status' = "CONFIG_MODE"
                /\ _configMode'
                /\ _active'
           ELSE /\ ~ret'
                /\ StatusChanges' = <<"CONFIG_MODE", "ERROR">>
                /\ _status' = "ERROR"
                /\ ~_configMode'
                /\ ~_active']_vars

\* autoConnect() has just put a fresh device into config mode, its portal
\* active, without a join
C10_Witness ==
    /\ op = "autoConnect"
    /\ ret
    /\ log = <<"onConfigStart", "CONFIG_MODE", "WiFi.softAP">>
    /\ _status = "CONFIG_MODE"
    /\ _active
    /\ joinArgs = NoArgs
    /\ ~validateData(eeprom)

\* the store holds credentials autoConnect() will use: a persisted record
\* that validates with its valid flag set when the store is yet to be
\* opened, the record in memory when it is open
HasStoredCredentials ==
    IF _isInitialized THEN WifiValid(_data)
    ELSE validateData(eeprom) /\ WifiValid(eeprom)

\* C11: autoConnect() in setup() with valid stored credentials and a join
\* that succeeds finds the status DISCONNECTED, changes it to CONNECTING and
\* then to CONNECTED, returns true, leaves the reconnect counter at 0, calls
\* onConnect once and never starts the portal.
C11_StoredCredentialsJoin ==
    [][(op' = "autoConnect" /\ HasStoredCredentials /\ linkUp') =>
        /\ _status = "DISCONNECTED"
        /\ StatusChanges' = <<"CONNECTING", "CONNECTED">>
        /\ _status' = "CONNECTED"
        /\ ret'
        /\ _reconnectAttempts' = 0
        /\ CountOf("onConnect", log') = 1
        /\ CountOf("onConfigStart", log') = 0
        /\ CountOf("WiFi.softAP", log') = 0
        /\ ~_active' /\ ~_configMode']_vars

\* autoConnect() has joined the network of the stored credentials after a
\* restart
C11_Witness ==
    /\ op = "autoConnect"
    /\ ret
    /\ log = <<"CONNECTING", "WiFi.begin", "CONNECTED", "onConnect">>
    /\ linkUp
    /\ validateData(eeprom) /\ WifiValid(eeprom)
    /\ joinArgs.ssid = StoredSsid(eeprom)

\* loop() is called with no request waiting at the portal and the button
\* left alone
IdleTick ==
    /\ op' = "loop" /\ args' = NoRequest
    /\ _isInitialized /\ ~pressed /\ ~pinLow

\* the link is lost, the credentials of the lost network are stored, and
\* the maxReconnectAttempts attempts to join it again have been counted:
\* the time of the next attempt has come
GiveUpDue ==
    /\ _isInitialized /\ _config.autoReconnect
    /\ ~linkUp /\ ~_configMode
    /\ Storage_loadFound(Store)
    /\ _reconnectAttempts >= _config.maxReconnectAttempts
    /\ reconnectAge >= RECONNECT_INTERVAL

\* C12 as stated: with autoReconnect enabled and the link lost, after
\* maxReconnectAttempts failed join attempts the manager enters CONFIG_MODE
\* exactly once: the tick that gives up announces onConfigStart once and
\* changes the status to CONFIG_MODE once, a tick after it announces
\* neither again, and no tick starts a join while the manager is in
\* CONFIG_MODE.
C12_EntersConfigModeOnce ==
    [][IdleTick =>
        /\ GiveUpDue /\ _status # "ERROR" =>
              /\ CountOf("onConfigStart", log') = 1
              /\ CountOf("CONFIG_MODE", log') = 1
              /\ CountOf("WiFi.begin", log') = 0
        /\ GiveUpDue /\ _status = "ERROR" =>
              /\ CountOf("onConfigStart", log') = 0
              /\ CountOf("CONFIG_MODE", log') = 0
        /\ _configMode =>
              /\ CountOf("WiFi.begin", log') = 0
              /\ CountOf("onConfigStart", log') = 0]_vars

\* C12, amended: the tick that finds maxReconnectAttempts attempts counted
\* announces onConfigStart once, changes the status to CONFIG_MODE once,
\* starts the access point once and starts no join.  When the access point
\* starts, the manager is in CONFIG_MODE with the portal active, and no
\* tick in config mode starts a join or the portal again.  When it does
\* not, the status goes on to ERROR with config mode off, the counter and
\* the time of the last attempt as they were: the next tick does the same.
C12_GivesUpOncePerStartedPortal ==
    [][IdleTick =>
        /\ GiveUpDue =>
              /\ CountOf("onConfigStart", log') = 1
              /\ CountOf("CONFIG_MODE", log') = 1
              /\ CountOf("WiFi.softAP", log') = 1
              /\ CountOf("WiFi.begin", log') = 0
              /\ UNCHANGED <<_reconnectAttempts, reconnectAge>>
              /\ IF apUp'
                 THEN _status' = "CONFIG_MODE" /\ _configMode' /\ _active'
                 ELSE _status' = "ERROR" /\ ~_configMode' /\ ~_active'
                      /\ GiveUpDue'
        /\ _configMode =>
              /\ CountOf("WiFi.begin", log') = 0
              /\ CountOf("onConfigStart", log') = 0
              /\ _configMode']_vars

\* three joins of the stored network have failed and the tick after them
\* has started the portal
C12_Witness ==
    /\ op = "loop" /\ args = NoRequest
    /\ log = <<"onConfigStart", "CONFIG_MODE", "WiFi.softAP">>
    /\ _reconnectAttempts = _config.maxReconnectAttempts
    /\ Storage_loadFound(Store)
    /\ _status = "CONFIG_MODE" /\ _configMode /\ _active /\ apUp

\* a tick gives up: its reconnection check starts the portal
TickGivesUp == IdleTick /\ CountOf("onConfigStart", log') > 0

\* C13 as stated: every join that succeeds leaves the reconnect counter at
\* 0, and once a join has succeeded a tick gives up only after
\* maxReconnectAttempts joins started by ticks have failed since, whatever
\* started the join that succeeded.
C13_FullJoinAttemptsAfterSuccess ==
    [][/\ CountOf("onConnect", log') > 0 => _reconnectAttempts' = 0
       /\ TickGivesUp /\ joinedBy # "none" =>
             tickJoins >= _config.maxReconnectAttempts]_vars

\* what holds of C13: every join that succeeds, whether autoConnect, a tick
\* or the form of the portal started it, leaves the reconnect counter at 0,
\* and a tick gives up only when maxReconnectAttempts attempts have been
\* counted since.  An attempt is a join of the stored network when the
\* store holds valid credentials; when it holds none the attempt is counted
\* and no join is started.
C13_SuccessResetsCounter ==
    [][/\ CountOf("onConnect", log') > 0 =>
             _reconnectAttempts' = 0 /\ tickJoins' = 0
       /\ TickGivesUp => _reconnectAttempts >= _config.maxReconnectAttempts
       /\ TickGivesUp /\ Storage_loadFound(Store) =>
             tickJoins >= _config.maxReconnectAttempts
       /\ IdleTick /\ ~linkUp' =>
             /\ _reconnectAttempts' - _reconnectAttempts \in {0, 1}
             /\ CountOf("WiFi.begin", log') =
                   IF Storage_loadFound(Store)
                   THEN _reconnectAttempts' - _reconnectAttempts ELSE 0]_vars

\* a tick has joined the stored network again: the counter it had raised
\* is back at 0
C13_Witness ==
    /\ op = "loop" /\ args = NoRequest
    /\ log = <<"CONNECTING", "WiFi.begin", "CONNECTED", "onConnect">>
    /\ _reconnectAttempts = 0 /\ tickJoins = 0 /\ joinedBy = "tick"
    /\ linkUp /\ _status = "CONNECTED"

\* loop() is called with no request waiting at the portal
Tick == op' = "loop" /\ args' = NoRequest

\* C14: a tick that starts a reconnection attempt (it counts one, and joins
\* when credentials are stored) does so 10000 ms or more after the start of
\* the attempt before it, and with the counter below maxReconnectAttempts.
C14_AttemptsTenSecondsApart ==
    [][(Tick /\ (_reconnectAttempts' > _reconnectAttempts
                 \/ tickJoins' > tickJoins
                 \/ CountOf("WiFi.begin", log') > 0)) =>
        /\ reconnectAge >= RECONNECT_INTERVAL
        /\ _reconnectAttempts < _config.maxReconnectAttempts
        /\ ~linkUp /\ ~_configMode]_vars

\* a tick has started the second attempt in a row, and it has failed
C14_Witness ==
    /\ op = "loop" /\ args = NoRequest
    /\ log = <<"CONNECTING", "WiFi.begin", "DISCONNECTED">>
    /\ _reconnectAttempts = 2 /\ tickJoins = 2
    /\ ~linkUp

\* the link is down outside config mode, with autoReconnect enabled and
\* setup() over
LinkLost ==
    /\ ~InSetup /\ _config.autoReconnect
    /\ ~linkUp /\ ~_configMode

\* the manager is in CONFIG_MODE with the portal active
PortalUp == _status = "CONFIG_MODE" /\ _configMode /\ _active

\* the last tick has given up and the access point has not started
PortalFailed ==
    /\ op = "loop"
    /\ log = <<"onConfigStart", "CONFIG_MODE", "WiFi.softAP", "ERROR">>
    /\ _status = "ERROR"

\* C15 as stated: with autoReconnect enabled, the link lost and every join
\* failing, fair ticking leads to CONFIG_MODE with the portal active, and
\* the ticks start at most maxReconnectAttempts joins on the way.
C15_EventuallyPortalActive ==
    /\ LinkLost ~> PortalUp
    /\ [](tickJoins <= _config.maxReconnectAttempts)

\* C15, amended: with autoReconnect enabled, the link lost and every join
\* failing, fair ticking leads to a tick that gives up, after at most
\* maxReconnectAttempts joins started by ticks: the manager is then in
\* CONFIG_MODE with the portal active if the access point starts, and in
\* ERROR with the portal inactive if it does not.
C15_EventuallyGivesUp ==
    /\ LinkLost ~> (PortalUp \/ PortalFailed)
    /\ [](tickJoins <= _config.maxReconnectAttempts)
    /\ [](PortalFailed => ~_active /\ ~_configMode)

\* three joins of the stored network have failed since the link was lost,
\* and the portal is up
C15_Witness ==
    /\ PortalUp /\ apUp
    /\ op = "loop" /\ args = NoRequest
    /\ tickJoins = _config.maxReconnectAttempts
    /\ joinedBy = "portal"

\* a later tick will start a join or the portal by itself: loop() calls
\* handleReconnection
TickWillAct == ~_configMode /\ _config.autoReconnect

\* C16: once setup() is over the device is never silently offline: the link
\* is joined, or the portal is active, or a later tick will start a join
\* or the portal without the user.
C16_NeverSilentlyOffline ==
    ~InSetup => linkUp \/ _active \/ TickWillAct

\* loop() finds the button let go after it had seen it held down, with no
\* request waiting at the portal: the hold it measures is pressAge
ReleaseTick == Tick /\ _isInitialized /\ pressed /\ ~pinLow

\* C17: a button held for more than 3000 ms and let go triggers the factory
\* reset: the store is cleared and the device restarts; the persisted record
\* holds no credentials, and hasWiFiCredentials() is false after the
\* restart, before and after the store is opened again.
C17_LongPressFactoryReset ==
    [][(ReleaseTick /\ pressAge > LONG_PRESS) =>
        /\ CountOf("clearAll", log') = 1
        /\ CountOf("restart", log') = 1
        /\ log'[Len(log')] = "restart"
        /\ ~_isInitialized' /\ ~_configMode' /\ ~_active' /\ ~linkUp'
        /\ ~WifiValid(eeprom')
        /\ ~hasWiFiCredentials'
        /\ \A pad \in PadBytes :
              /\ ~Storage_loadFound(Storage_begin(Store', pad))
              /\ ~WifiValid(Storage_begin(Store', pad).eeprom)]_vars

\* the button has been let go after more than 3000 ms and the device has
\* restarted over a cleared store
C17_Witness ==
    /\ op = "loop" /\ args = NoRequest
    /\ CountOf("clearAll", log) = 1 /\ CountOf("restart", log) = 1
    /\ ~_isInitialized /\ ~pressed /\ ~pinLow
    /\ lastHold > LONG_PRESS
    /\ eepromBegun = FALSE /\ ~WifiValid(eeprom)
    /\ CStringAt(eeprom, OFF_SSID, MAX_SSID_LENGTH) = <<>>

\* C18: a button held for more than 100 ms and at most 3000 ms and let go
\* starts the portal when config mode is off and does nothing when it is
\* on; the store, in memory and in the flash, is as it was in both cases.
C18_ShortPressStartsPortal ==
    [][(ReleaseTick /\ pressAge > SHORT_PRESS /\ pressAge <= LONG_PRESS) =>
        /\ UNCHANGED storeVars
        /\ hasWiFiCredentials' = hasWiFiCredentials
        /\ CountOf("saveWiFiCredentials", log') = 0
        /\ CountOf("clearAll", log') = 0
        /\ CountOf("restart", log') = 0
        /\ ~pressed'
        /\ IF _configMode
           THEN /\ log' = <<>>
                /\ UNCHANGED <<_status, _configMode, _active, apUp, linkUp,
                               _reconnectAttempts>>
           ELSE /\ Len(log') >= 2
                /\ log'[1] = "onConfigStart"
                /\ CountOf("WiFi.softAP", log') >= 1
                /\ apUp' => /\ _active' /\ _configMode'
                            /\ _status' = "CONFIG_MODE"
                            /\ CountOf("onConfigStart", log') = 1]_vars

\* on a joined device with stored credentials the button has been let go
\* after a short press and the portal has started
C18_Witness ==
    /\ op = "loop" /\ args = NoRequest
    /\ log = <<"onConfigStart", "CONFIG_MODE", "WiFi.softAP">>
    /\ lastHold = LONG_PRESS /\ ~pressed /\ ~pinLow
    /\ _reconnectAttempts = 0 /\ joinedBy = "portal"
    /\ hasWiFiCredentials
    /\ _status = "CONFIG_MODE" /\ _active /\ apUp

\* the time of a reconnection attempt has come: the tick will make one, or
\* give up, whatever the button does
ReconnectionDue ==
    /\ _config.autoReconnect /\ ~linkUp /\ ~_configMode
    /\ reconnectAge >= RECONNECT_INTERVAL

\* C19: a button let go after 100 ms or less causes nothing: no restart,
\* no write to the store and no start of the portal by the button.  The
\* tick that sees the release logs nothing and changes no status, unless
\* the time of a reconnection attempt has come: then it does what the
\* reconnection does, a join below maxReconnectAttempts attempts and the
\* portal from there on.
C19_DebouncedPressIgnored ==
    [][(ReleaseTick /\ pressAge <= SHORT_PRESS) =>
        /\ UNCHANGED storeVars
        /\ CountOf("restart", log') = 0
        /\ CountOf("clearAll", log') = 0
        /\ CountOf("saveWiFiCredentials", log') = 0
        /\ ~pressed' /\ lastHold' = pressAge
        /\ ~ReconnectionDue =>
              /\ log' = <<>>
              /\ UNCHANGED <<_status, _configMode, _active, apUp, linkUp,
                             _reconnectAttempts, notified>>
        /\ ReconnectionDue
             /\ _reconnectAttempts < _config.maxReconnectAttempts =>
              /\ CountOf("onConfigStart", log') = 0
              /\ _reconnectAttempts' \in {0, _reconnectAttempts + 1}
        /\ ReconnectionDue
             /\ _reconnectAttempts >= _config.maxReconnectAttempts =>
              /\ CountOf("onConfigStart", log') = 1
              /\ CountOf("WiFi.begin", log') = 0]_vars

\* on a joined device the button has been let go after 100 ms and the tick
\* that saw it has done nothing
C19_Witness ==
    /\ op = "loop" /\ args = NoRequest
    /\ log = <<>>
    /\ lastHold = SHORT_PRESS /\ ~pressed /\ ~pinLow
    /\ _status = "CONNECTED" /\ linkUp /\ ~_configMode /\ ~_active
    /\ hasWiFiCredentials

\* during a call the notifications follow the status: the first carries a
\* status other than the one the call found, each next one a status other
\* than the one before it, the last one the status the call leaves; a call
\* that fires none leaves the status as it found it; the first
\* notification of a call never repeats the last one fired before it; and
\* a tick that starts no join and no portal fires none.  A restart, which
\* constructs the manager anew, is set aside.
NotificationsFollowStatus ==
    LET S == StatusChanges'
        restarted == CountOf("restart", log') > 0
    IN  /\ S = <<>> /\ ~restarted => _status' = _status
        /\ S # <<>> =>
              /\ S[1] # _status
              /\ notified # "none" => S[1] # notified
              /\ \A i \in 1..(Len(S) - 1) : S[i] # S[i + 1]
              /\ ~restarted => _status' = S[Len(S)] /\ notified' = _status'
        /\ (op' = "loop" /\ CountOf("WiFi.begin", log') = 0
              /\ CountOf("onConfigStart", log') = 0) =>
              S = <<>>

\* C20 as stated: every change of the connection state a caller can see,
\* getStatus() and isConnected(), is notified once with the new state and
\* nothing else is: the notifications follow the status, and when loop()
\* returns isConnected() is true exactly if the last notification carried
\* CONNECTED.
C20_VisibleStateNotified ==
    [][/\ NotificationsFollowStatus
       /\ (op' = "loop" /\ notified' # "none") =>
             (isConnected' <=> notified' = "CONNECTED")]_vars

\* what holds of C20: the notifications follow the value of getStatus().
C20_OneNotificationPerChange == [][NotificationsFollowStatus]_vars

\* the form of the portal has joined a network: CONNECTED was notified once
\* by connectWiFi, and not again by the setStatus(CONNECTED) that follows
\* the saving of the credentials
C20_Witness ==
    /\ op = "loop" /\ joinedBy = "portal"
    /\ log = <<"CONNECTING", "WiFi.begin", "CONNECTED", "onConnect",
               "saveWiFiCredentials", "onConfigEnd">>
    /\ _status = "CONNECTED" /\ notified = "CONNECTED"

\* C21: on a device whose status is CONNECTED, with autoReconnect enabled,
\* a tick that finds the link lost leaves a status other than CONNECTED, and
\* the first status it notifies is DISCONNECTED, before any CONNECTING.
C21_LinkLossSetsDisconnected ==
    [][(Tick /\ _isInitialized /\ _config.autoReconnect
          /\ _status = "CONNECTED" /\ ~linkUp /\ ~pressed /\ ~pinLow) =>
        /\ StatusChanges' # <<>>
        /\ StatusChanges'[1] = "DISCONNECTED"
        /\ linkUp' \/ _status' # "CONNECTED"]_vars

\* a call in which the manager asked the radio for a join and the radio,
\* failed hard, reported a failure
JoinMetRadioFault ==
    /\ op' \in {"autoConnect", "autoConnectWith", "loop"}
    /\ radioFault
    /\ CountOf("WiFi.begin", log') > 0

\* C22: from any state, a join attempt during which the radio reports a hard
\* failure leaves the manager in the ERROR status.
C22_RadioFaultGivesError ==
    [][JoinMetRadioFault => _status' = "ERROR"]_vars

\* a tick serves the form a user submitted to the portal of a device in
\* CONFIG_MODE, and the join with what was submitted succeeds
PortalJoinSucceeds ==
    /\ op' = "loop" /\ args'.path = "/connect"
    /\ _status = "CONFIG_MODE" /\ _active
    /\ CountOf("WiFi.begin", log') = 1
    /\ linkUp'

\* C23: in CONFIG_MODE, when the portal's form is submitted and the join
\* succeeds, the status goes through CONNECTING to CONNECTED, the submitted
\* ssid and password are the stored credentials, marked valid, in the cache
\* and in the flash, the portal is inactive and config mode is off.
C23_PortalConnectStoresSubmitted ==
    [][PortalJoinSucceeds =>
        /\ StatusChanges' = <<"CONNECTING", "CONNECTED">>
        /\ _status' = "CONNECTED"
        /\ ~_active' /\ ~_configMode'
        /\ WifiValid(_data') /\ WifiValid(eeprom')
        /\ CStringAt(_data', OFF_SSID, MAX_SSID_LENGTH) = args'.ssid
        /\ CStringAt(eeprom', OFF_SSID, MAX_SSID_LENGTH) = args'.ssid
        /\ CStringAt(_data', OFF_PASSWORD, MAX_PASSWORD_LENGTH) = args'.password
        /\ CStringAt(eeprom', OFF_PASSWORD, MAX_PASSWORD_LENGTH) = args'.password]_vars

\* a tick finds a request for a factory reset: the portal's reset page has
\* been asked for, or the button is let go after more than 3000 ms
ResetRequested ==
    /\ op' = "loop" /\ _isInitialized
    /\ \/ args' = ResetRequest /\ _active
       \/ args' = NoRequest /\ pressed /\ ~pinLow /\ pressAge > LONG_PRESS

\* C24: a reset request, by a long press or from the portal, clears the
\* store and restarts the device from whatever state it was in: after it the
\* status is DISCONNECTED, config mode is off, the portal is down, the
\* reconnect counter is 0, and the store holds no credentials, in the flash
\* now and in the cache once the store is opened again.
C24_ResetClearsAndRestarts ==
    [][ResetRequested =>
        /\ CountOf("clearAll", log') = 1
        /\ log'[Len(log')] = "restart"
        /\ ~_isInitialized'
        /\ _status' = "DISCONNECTED"
        /\ ~_configMode' /\ ~_active' /\ ~linkUp'
        /\ _reconnectAttempts' = 0
        /\ ~WifiValid(eeprom')
        /\ StoredSsid(eeprom') = <<>> /\ StoredPassword(eeprom') = <<>>
        /\ \A pad \in PadBytes :
              /\ ~Storage_loadFound(Storage_begin(Store', pad))
              /\ StoredSsid(Storage_begin(Store', pad).data) = <<>>]_vars

\* the portal's reset page has restarted a device that had left its setup
C24_Witness ==
    /\ op = "loop" /\ args = ResetRequest
    /\ CountOf("clearAll", log) = 1 /\ CountOf("restart", log) = 1
    /\ ~_isInitialized /\ _status = "DISCONNECTED" /\ ~_configMode
    /\ _reconnectAttempts = 0
    /\ ~WifiValid(eeprom) /\ StoredSsid(eeprom) = <<>>

\* what a call logged while config mode was still on: its log up to the
\* first onConfigEnd, which stopConfigPortal logs when it switches it off
InConfigMode(l) ==
    LET ends == {i \in 1..Len(l) : l[i] = "onConfigEnd"} IN
    IF ends = {} THEN l
    ELSE SubSeq(l, 1, (CHOOSE i \in ends : \A k \in ends : i <= k) - 1)

\* C25: a tick that finds config mode on joins no network by itself and
\* does not increment the reconnect counter while config mode is on, however
\* long ago the last attempt was and whether or not the link is up: the only
\* join it makes in config mode is the one a form submitted to the portal
\* asks for, with what was submitted.
C25_NoReconnectionInConfigMode ==
    [][(op' = "loop" /\ _isInitialized /\ _configMode) =>
        /\ _configMode' => /\ _reconnectAttempts' <= _reconnectAttempts
                           /\ tickJoins' <= tickJoins
        /\ InConfigMode(log') = log' =>
              _reconnectAttempts' <= _reconnectAttempts
        /\ IF args'.path = "/connect" /\ _active /\ args'.ssid # <<>>
           THEN /\ CountOf("WiFi.begin", InConfigMode(log')) = 1
                /\ _configMode' =>
                      joinArgs' = [ssid |-> args'.ssid,
                                   password |-> args'.password]
           ELSE CountOf("WiFi.begin", log') = 0]_vars

\* a tick has left alone a device in config mode whose link is down, whose
\* store holds credentials and whose last attempt is 10 seconds old, with
\* attempts left
C25_Witness ==
    /\ op = "loop" /\ args = NoRequest
    /\ _isInitialized /\ _configMode
    /\ ~linkUp
    /\ WifiValid(_data)
    /\ reconnectAge >= RECONNECT_INTERVAL
    /\ _reconnectAttempts < _config.maxReconnectAttempts
    /\ log = <<>>

\* C26: whenever loop() gets called, a tick that sees the button let go
\* fires the factory reset only if the pin was low for more than 3000 ms
\* without interruption, and starts the portal for the button only if it was
\* low for more than 100 ms.
C26_NoSpuriousFiring ==
    [][(ReleaseTick /\ pinHeld >= 0) =>
        /\ CountOf("clearAll", log') > 0 => pinHeld > LONG_PRESS
        /\ (~_configMode /\ lastHold' > SHORT_PRESS
              /\ CountOf("onConfigStart", log') > 0) =>
              pinHeld > SHORT_PRESS]_vars

\* C27: autoConnect() and the ticks join with what the store holds only
\* when the store is open and its wifi.valid flag is set: a join they make
\* is made with the ssid and the password of a valid cache.
C27_NoJoinWithInvalidCredentials ==
    [][/\ (op' = "autoConnect" /\ CountOf("WiFi.begin", log') > 0) =>
             /\ _initialized' /\ WifiValid(_data')
             /\ log'[Len(log')] = "restart"
                  \/ joinArgs' = [ssid |-> StoredSsid(_data'),
                                  password |-> StoredPassword(_data')]
       /\ (Tick /\ CountOf("WiFi.begin", log') > 0) =>
             /\ _initialized /\ WifiValid(_data)
             /\ log'[Len(log')] = "restart"
                  \/ joinArgs' = [ssid |-> StoredSsid(_data),
                                  password |-> StoredPassword(_data)]]_vars

\* a tick whose reconnection attempt was due has counted the attempt and
\* joined nothing, on a device that had joined with credentials of the
\* sketch and lost the link: its store holds no valid credentials
C27_Witness ==
    /\ op = "loop" /\ args = NoRequest
    /\ _isInitialized /\ _initialized /\ ~WifiValid(_data)
    /\ ~linkUp /\ ~_configMode
    /\ joinedBy = "autoConnectWith"
    /\ _reconnectAttempts > 0 /\ reconnectAge = 0
    /\ log = <<>>

\* the XOR of every byte of the record d outside its checksum field, up to
\* the last byte of the reserved area
XorOutsideChecksum(d) ==
    BitXor(XorBytes(d, 0, OFF_CHECKSUM - 1),
           XorBytes(d, OFF_CHECKSUM + SIZEOF_CHECKSUM, SIZEOF_STORAGEDATA - 1))

\* the record d with bit 0 of its byte i flipped
WithByteFlipped(d, i) == [d EXCEPT ![i] = BitXor(@, 1)]

\* C28: the checksum a write stores is the checksum of every byte of the
\* written record outside the checksum field: what the field held before the
\* write makes no difference to it, and a change of any other byte of the
\* record, the reserved area included, changes it.
C28_ChecksumCoversAllButItself ==
    [][eeprom' # eeprom =>
        /\ ChecksumFieldIs(eeprom', XorOutsideChecksum(eeprom'))
        /\ \A i \in ChecksumRange :
              calculateChecksum(WithByteFlipped(_data, i))
                 = calculateChecksum(_data)
        /\ \A i \in Offsets \ ChecksumRange :
              calculateChecksum(WithByteFlipped(eeprom', i))
                 # calculateChecksum(eeprom')]_vars

\* a call has asked the radio for a join, once, and the join has failed or
\* timed out
JoinFailed == CountOf("WiFi.begin", log') = 1 /\ ~linkUp'

\* a tick made a reconnection attempt of its own, which failed
TickJoinFailed ==
    /\ Tick /\ _isInitialized /\ ~pressed /\ ~pinLow
    /\ _reconnectAttempts < _config.maxReconnectAttempts
    /\ JoinFailed

\* what the failed attempt of a tick leaves: DISCONNECTED, the attempt
\* counted, and the portal left alone
TickJoinFailedOutcome ==
    /\ StatusChanges' = <<"CONNECTING", "DISCONNECTED">>
    /\ _status' = "DISCONNECTED"
    /\ _reconnectAttempts' = _reconnectAttempts + 1
    /\ ~_active' /\ ~_configMode'
    /\ CountOf("onConfigStart", log') = 0
    /\ CountOf("WiFi.softAP", log') = 0

\* C29 as stated: a failed or timed-out join that autoConnect asked for ends
\* in CONFIG_MODE with the portal active; one that a tick made by itself,
\* with attempts left, ends in DISCONNECTED with the portal not started.
C29_FailedJoinEndsInConfigMode ==
    [][/\ (op' \in {"autoConnect", "autoConnectWith"} /\ JoinFailed) =>
             /\ _status' = "CONFIG_MODE"
             /\ _active' /\ _configMode'
       /\ TickJoinFailed => TickJoinFailedOutcome]_vars

\* C29, amended: a failed or timed-out join that autoConnect asked for is
\* followed by the start of the portal: the status goes from CONNECTING to
\* DISCONNECTED and CONFIG_MODE, and the call returns true with the portal
\* active when the access point starts; when it does not, the status goes on
\* to ERROR, config mode is off, the portal is inactive and the call returns
\* false.  A failed join that a tick made by itself, with attempts left,
\* ends in DISCONNECTED with the portal not started.
C29_FailedJoinStartsPortal ==
    [][/\ (op' \in {"autoConnect", "autoConnectWith"} /\ JoinFailed) =>
             /\ CountOf("onConfigStart", log') = 1
             /\ CountOf("WiFi.softAP", log') = 1
             /\ IF apUp'
                THEN /\ StatusChanges' =
                           <<"CONNECTING", "DISCONNECTED", "CONFIG_MODE">>
                     /\ _status' = "CONFIG_MODE"
                     /\ _active' /\ _configMode' /\ ret'
                ELSE /\ StatusChanges' =
                           <<"CONNECTING", "DISCONNECTED", "CONFIG_MODE",
                             "ERROR">>
                     /\ _status' = "ERROR"
                     /\ ~_active' /\ ~_configMode' /\ ~ret'
       /\ TickJoinFailed => TickJoinFailedOutcome]_vars

\* autoConnect(ssid, password) has failed to join and then failed to start
\* the access point of the portal
C29_Witness ==
    /\ op = "autoConnectWith" /\ ~ret
    /\ CountOf("WiFi.begin", log) = 1 /\ ~linkUp
    /\ _status = "ERROR" /\ ~_active /\ ~_configMode /\ ~apUp

\* the portal has timed out under a manager in CONFIG_MODE: config mode is
\* on and the portal is not active
PortalTimedOut ==
    /\ _isInitialized /\ _status = "CONFIG_MODE"
    /\ _configMode /\ ~_active

\* C30: the tick that finds the portal's timeout elapsed, with no form
\* submitted, stops the portal and nothing else: the status stays
\* CONFIG_MODE, config mode stays on, and no status change and no callback
\* is logged.  From then on every tick, and every step other than a restart,
\* leaves the status CONFIG_MODE and config mode on, with nothing notified.
C30_TimeoutKeepsConfigMode ==
    [][/\ (Tick /\ _isInitialized /\ _status = "CONFIG_MODE" /\ _configMode
             /\ _active /\ portalAge > PORTAL_TIMEOUT) =>
             /\ PortalTimedOut'
             /\ ~apUp'
             /\ log' = <<>>
             /\ notified' = notified
       /\ (PortalTimedOut /\ op' # "powerCycle") =>
             /\ PortalTimedOut'
             /\ log' = <<>>
             /\ notified' = notified
             /\ _reconnectAttempts' = _reconnectAttempts]_vars

\* a tick has found the portal timed out some time ago and config mode still
\* on, with the link down and a reconnection attempt due
C30_Witness ==
    /\ op = "loop" /\ args = NoRequest
    /\ PortalTimedOut
    /\ notified = "CONFIG_MODE"
    /\ ~linkUp /\ ~apUp
    /\ reconnectAge >= RECONNECT_INTERVAL
    /\ log = <<>>
(***************************************************************************)
(* The claims about the frame of the store's calls, the portal's timeout,  *)
(* config mode and the reconnect counter.                                  *)
(***************************************************************************)
\* the substructure a call of the store's interface is to change
MutatedRange ==
    [saveWiFiCredentials |-> WifiRange, clearWiFiCredentials |-> WifiRange,
     saveNetworkConfig |-> NetworkRange, clearNetworkConfig |-> NetworkRange,
     saveDeviceConfig |-> DeviceRange, clearDeviceConfig |-> DeviceRange]

\* the bytes of the records d and e are the same outside `range` and outside
\* the checksum field
SameOutside(d, e, range) ==
    \A i \in Offsets \ (range \cup ChecksumRange) : d[i] = e[i]

\* the record in memory after a call, with the checksum field as the call
\* found it: what a single saveToEEPROM computes the checksum of
BeforeItsWrite ==
    [i \in Offsets |-> IF i \in ChecksumRange THEN _data[i] ELSE _data'[i]]

\* C31: a save or a clear of one substructure leaves every byte of the other
\* substructures, of the magic and of the version as it was, in memory and
\* in the flash; on an opened store one that changes anything writes the
\* whole record once: the flash holds the record in memory, whose checksum
\* was computed once, and a save that returns false changes nothing.
C31_SingleSubstructureMutation ==
    [][op' \in DOMAIN MutatedRange =>
        /\ SameOutside(_data', _data, MutatedRange[op'])
        /\ SameOutside(eeprom', eeprom, MutatedRange[op'])
        /\ (_initialized /\ ret') =>
              /\ _data' = WithChecksum(BeforeItsWrite)
              /\ eeprom' = _data'
        /\ ~ret' => (_data' = _data /\ eeprom' = eeprom)]_vars

\* saveNetworkConfig has returned true on a store that holds valid
\* credentials, and the flash holds them too
C31_Witness ==
    /\ op = "saveNetworkConfig" /\ ret
    /\ _initialized /\ eepromBegun
    /\ WifiValid(_data) /\ StoredSsid(eeprom) # <<>>
    /\ eeprom = _data

\* C32: with autoReconnect switched off, a tick that finds the link down
\* starts no join, leaves the reconnect counter as it was, does not start
\* the portal and leaves the status and config mode as they were, however
\* long the link has been down; a tick that serves a submitted form leaves
\* the counter as it was as well.
C32_NoReconnectionWhenDisabled ==
    [][(op' = "loop" /\ ~_config.autoReconnect /\ ~linkUp) =>
        /\ _reconnectAttempts' = _reconnectAttempts
        /\ args' = NoRequest =>
              /\ CountOf("WiFi.begin", log') = 0
              /\ CountOf("onConfigStart", log') = 0
              /\ SelectSeq(log', IsStatus) = <<>>
              /\ _status' = _status
              /\ _configMode' = _configMode
              /\ _active' => _active
              /\ ~linkUp']_vars

\* a tick has left alone a device that had joined a network and lost it,
\* whose store holds credentials and whose last attempt is 10 seconds old
C32_Witness ==
    /\ op = "loop" /\ args = NoRequest
    /\ ~_config.autoReconnect
    /\ _isInitialized /\ ~_configMode
    /\ _status = "CONNECTED" /\ ~linkUp
    /\ WifiValid(_data)
    /\ reconnectAge >= RECONNECT_INTERVAL
    /\ log = <<>>

\* C33: a tick with no request and no restart of the portal deactivates an
\* active portal exactly when more than the configured configPortalTimeout
\* seconds have passed since the portal was started: the value kept by the
\* manager, set by setTimeout or with the configuration, is the one applied.
C33_PortalAppliesConfiguredTimeout ==
    [][(op' = "loop" /\ args' = NoRequest /\ _isInitialized /\ _active
          /\ CountOf("onConfigStart", log') = 0) =>
        (~_active' <=> portalAge > _config.configPortalTimeout * 1000)]_vars

\* the same with the timeout the portal was constructed with
C33_PortalAppliesItsOwnTimeout ==
    [][(op' = "loop" /\ args' = NoRequest /\ _isInitialized /\ _active
          /\ CountOf("onConfigStart", log') = 0) =>
        (~_active' <=> portalAge > PORTAL_TIMEOUT)]_vars

\* C34: between the calls, isConfigMode() is true exactly when getStatus()
\* is CONFIG_MODE.
C34_ConfigModeIffStatus == _configMode <=> _status = "CONFIG_MODE"

\* C35: whenever isConfigMode() is true the portal is active.
C35_ConfigModeImpliesActive == _configMode => _active

\* a tick serves the form a user submitted to the portal of a device in
\* CONFIG_MODE, well before the portal's timeout, and the join with what was
\* submitted fails or times out
PortalJoinFails ==
    /\ op' = "loop" /\ args'.path = "/connect"
    /\ _status = "CONFIG_MODE" /\ _configMode /\ _active
    /\ portalAge + _config.connectTimeout * 1000 <= PORTAL_TIMEOUT
    /\ JoinFailed

\* C36: after a join submitted through the portal has failed, the stored
\* credentials are what they were, in the cache and in the flash, and the
\* device can still be configured: the status is CONFIG_MODE, isConfigMode()
\* is true and the portal is active.
C36_FailedPortalJoinStaysConfigurable ==
    [][PortalJoinFails =>
        /\ _data' = _data /\ eeprom' = eeprom
        /\ _status' = "CONFIG_MODE"
        /\ _configMode' /\ _active']_vars

\* the part of it about the store, config mode and the portal
C36_FailedPortalJoinKeepsStore ==
    [][PortalJoinFails =>
        /\ _data' = _data /\ eeprom' = eeprom
        /\ _configMode' /\ _active']_vars

\* C37: after a tick at whose end the link is joined and config mode is
\* off, the status is CONNECTED and the reconnect counter is 0.
C37_JoinedTickReportsConnected ==
    [][(op' = "loop" /\ _isInitialized /\ linkUp' /\ ~_configMode') =>
        (_status' = "CONNECTED" /\ _reconnectAttempts' = 0)]_vars

\* the save calls of the store's interface
SaveCalls ==
    {"saveWiFiCredentials", "saveNetworkConfig", "saveDeviceConfig",
     "saveAll"}

\* repairIfNeeded() is called on an open store right after a save that
\* returned true
RepairAfterSave ==
    /\ op' = "repairIfNeeded"
    /\ _initialized /\ op \in SaveCalls /\ ret

\* C38: repairIfNeeded() called on an open store whose last call was a
\* successful save returns true and leaves the record, and with it the
\* credentials, the network configuration and the device configuration,
\* as they were, in the cache and in the flash.
C38_RepairIsIdentityOnHealthyStore ==
    [][RepairAfterSave =>
        /\ ret'
        /\ _data' = _data
        /\ eeprom' = eeprom]_vars

\* a tick whose reconnection check finds an attempt due, attempts left and
\* no valid credentials in the store
AttemptDueWithoutCredentials ==
    /\ IdleTick /\ _config.autoReconnect
    /\ ~linkUp /\ ~_configMode /\ ~_active
    /\ reconnectAge >= RECONNECT_INTERVAL
    /\ _reconnectAttempts < _config.maxReconnectAttempts
    /\ ~WifiValid(_data)

\* C39: with the configuration the manager was constructed with, the
\* reconnect counter never exceeds maxReconnectAttempts.  A step changes it
\* only by resetting it to 0 or, in a loop() that found it below
\* maxReconnectAttempts, by adding one; a tick with an attempt due counts
\* one attempt also when the store holds no valid credentials to join with.
C39_CounterWithinMaximum ==
    [][/\ _config' = _config =>
            _reconnectAttempts' <= _config.maxReconnectAttempts
       /\ _reconnectAttempts' # _reconnectAttempts =>
            \/ _reconnectAttempts' = 0
            \/ /\ op' = "loop"
               /\ _reconnectAttempts < _config.maxReconnectAttempts
               /\ _reconnectAttempts' = _reconnectAttempts + 1
       /\ AttemptDueWithoutCredentials =>
            /\ _reconnectAttempts' = _reconnectAttempts + 1
            /\ CountOf("WiFi.begin", log') = 0]_vars

\* a tick has counted the last of the maxReconnectAttempts attempts on a
\* device that lost its link and has no valid credentials stored
C39_Witness ==
    /\ op = "loop" /\ args = NoRequest
    /\ _isInitialized /\ ~_configMode /\ ~linkUp
    /\ ~WifiValid(_data)
    /\ _reconnectAttempts = _config.maxReconnectAttempts
    /\ reconnectAge = 0
    /\ log = <<>>
====
